---- MODULE Spec2Model ----
(***************************************************************************)
(* State-machine model of the NXlayer orchestrator (the Electron main      *)
(* process, src/unnamed/part_001): the keystroke-monitor and AI-worker     *)
(* child processes, the single pendingAIRequest slot, the 60 s request     *)
(* timers, trigger sessions (handleKeystrokeEvent, handleClipboardTrigger),*)
(* the Paste / Escape / overlay / screenshot hotkeys and the settings IPC. *)
(*                                                                         *)
(* Every JavaScript macrotask (a line read from a child, a timer callback, *)
(* a hotkey callback, a child's close event) is one action.  Promise       *)
(* continuations run as microtasks before the next macrotask, so the code  *)
(* that follows an await on a promise is part of the action that settles   *)
(* the promise.                                                            *)
(*                                                                         *)
(* The AI worker (ai_backend_service.py) answers the generate commands it  *)
(* has read; a chunk line carries no request id, so the model tags each    *)
(* chunk with the request the worker produced it for (history only) and    *)
(* lets the worker serve its queued requests in any order.  Texts are      *)
(* sequences of named characters ("a", "SP", "LF", ...); a chunk is the    *)
(* empty text or one character of Alphabet.  The text functions            *)
(* (normalizeTextForInjection, the argument escape, the popup position)    *)
(* are operators with a specification of their own that applies them to    *)
(* drawn inputs; the system clipboard is modelled by its content.          *)
(* In coding mode handleClipboardTrigger starts a second request, the      *)
(* explanation request, once its clipboard request has a result; the       *)
(* monitor's buffer and the clipboard are inputs of the events that report *)
(* them.  The stop of the two children at will-quit, the hold-to-talk      *)
(* recorder processes, the key store (src/src/main/keystore.js) and        *)
(* loadCachedConfig each have a specification of their own.                *)
(*                                                                         *)
(* The whole system is the union of the Next relations below; each         *)
(* specification follows one group of handlers so that TLC can exhaust it. *)
(***************************************************************************)
EXTENDS Integers, Sequences, FiniteSets, TLC

\* ---------------------------------------------------------------- bounds
MaxSessions == 2        \* trigger sessions (handler invocations) per behaviour
MaxChunks == 2          \* chunks the worker emits per request
MaxCharCount == 2       \* largest char_count / raw_count reported by the monitor
MaxClock == 60000       \* the clock stops here (ms)
TickMs == 30000         \* granularity of the clock (ms)
MaxStreak == 6          \* consecutive child restarts that are followed (SupervisorSpec)
MaxPastes == 1          \* Paste hotkey callbacks that can be in progress at once
MaxTextLen == 3         \* longest text handed to a text function
DisplayWidth == 24      \* width of the display (px)
DisplayHeight == 40     \* height of the display (px)
TaskbarHeight == 8      \* height of the taskbar that the work area leaves out (px)
MaxRecorders == 3       \* recorder processes spawned in one run

\* ------------------------------------------------------ program constants
MONITOR_RESTART_DELAY == 2000
MONITOR_MAX_RESTARTS == 5
GEN_TIMEOUT == 60000
POPUP_BELOW == 20       \* let y = cursor.y + 20
FLIP_GAP == 5           \* y = cursor.y - popupHeight - 5
EDGE_GAP == 10          \* x = workArea.x + workArea.width - popupWidth - 10

Sessions == 1..MaxSessions
\* The generateExplanation call made by the handler of session s, and all the
\* generateTextStreaming calls of a behaviour.
Explanation(s) == MaxSessions + s
Requests == Sessions \cup {Explanation(s) : s \in Sessions}
Pastes == 1..MaxPastes
Alphabet == {"a"}
ChunkTexts == {<<>>} \cup {<<c>> : c \in Alphabet}
MonitorTypes == {"backtick", "extension", "live"}

VARIABLES
  masterEnabled,          \* let masterEnabled
  autoInjectEnabled,      \* let autoInjectEnabled
  liveModeEnabled,        \* let liveModeEnabled
  ultraHumanEnabled,      \* let ultraHumanEnabled
  codingModeEnabled,      \* let codingModeEnabled
  keystrokeMonitor,       \* "null" or "running": the monitor child handle
  monitorAlive,           \* number of keystroke-monitor processes that have not exited
  monitorRestartCount,    \* let monitorRestartCount
  monitorRestartTimer,    \* TRUE while the restart timeout is pending
  monitorStreak,          \* history: restarts performed since the monitor last reported started
  aiBackend,              \* "null" or "running": the AI worker child handle
  aiAlive,                \* number of AI worker processes that have not exited
  aiReportedOK,           \* history: the newest worker has written started with success=true
  aiBackendReady,         \* let aiBackendReady
  aiStartedDue,           \* the current worker has not yet written its started line
  aiRestartTimer,         \* TRUE while setTimeout(startAIBackend, 2000) is pending
  aiStreak,               \* history: restarts since a worker last reported started/success
  pendingAIRequest,       \* the single slot: owner = 0 is null
  pendingBufferResolve,   \* session whose requestBuffer promise is in the slot, 0 = null
  getBufferQueue,         \* get_buffer commands the monitor has not answered yet
  sess,                   \* per trigger session: handler position, promise, timer, worker side
  nextSession,            \* next unused session id
  pendingBackspaceCount,  \* let pendingBackspaceCount
  triggerMode,            \* let triggerMode
  lastGeneratedText,      \* let lastGeneratedText
  lastSetBy,              \* history: session whose result is in lastGeneratedText
  lastCompleted,          \* history: session whose generation completed most recently (0 none)
  outputVisible,          \* outputWindow.isVisible()
  isWindowVisible,        \* let isWindowVisible (overlay prompt bar)
  paste,                  \* the Paste hotkey callback in progress
  popupEvents,            \* the stream events the last step sent to the output window
  now,                    \* clock (ms)
  lastGeneratedExplanation, \* let lastGeneratedExplanation
  explanationVisible,     \* explanationWindow.isVisible()
  clipboard,              \* the text on the system clipboard
  ipc,                    \* the auto-inject-text / inject-text handler in progress
  inputText,              \* parameter `text` of a call of a text function
  normalized,             \* <<result>> of normalizeTextForInjection(inputText), <<>> before
  escapedText,            \* <<escapedText>> built from inputText, <<>> before
  unescaped,              \* <<text the injector types for escapedText>>, <<>> before
  screen,                 \* pointer, work area and popup size read by a show of the popup
  position,               \* <<[x, y]>> passed to outputWindow.setPosition, <<>> before
  quit,                   \* will-quit: called, children told to stop, kill timers, killed
  voice,                  \* isVoiceRecording, voiceProcess and the recorder processes
  keystore,               \* data/keys.enc.json and the availability of safeStorage
  config                  \* process.env, the config files and cachedEnv

vars == <<masterEnabled, autoInjectEnabled, liveModeEnabled, ultraHumanEnabled,
          codingModeEnabled, keystrokeMonitor, monitorAlive, monitorRestartCount,
          monitorRestartTimer, monitorStreak, aiBackend, aiAlive, aiReportedOK,
          aiBackendReady, aiStartedDue, aiRestartTimer, aiStreak,
          pendingAIRequest, pendingBufferResolve, getBufferQueue, sess, nextSession,
          pendingBackspaceCount, triggerMode, lastGeneratedText, lastSetBy,
          lastCompleted, outputVisible, isWindowVisible, paste, popupEvents, now,
          lastGeneratedExplanation, explanationVisible, clipboard, ipc, quit, voice, keystore, config,
          inputText, normalized, escapedText, unescaped, screen, position>>

settingsVars == <<masterEnabled, autoInjectEnabled, liveModeEnabled, ultraHumanEnabled,
                  codingModeEnabled>>
monitorVars == <<keystrokeMonitor, monitorAlive, monitorRestartCount, monitorRestartTimer,
                 monitorStreak>>
aiProcVars == <<aiBackend, aiAlive, aiReportedOK, aiBackendReady, aiStartedDue,
                aiRestartTimer, aiStreak>>
bufferVars == <<pendingBufferResolve, getBufferQueue>>
resultVars == <<pendingBackspaceCount, triggerMode, lastGeneratedText, lastSetBy>>
windowVars == <<outputVisible, isWindowVisible>>
explainVars == <<lastGeneratedExplanation, explanationVisible>>
injectVars == <<clipboard, ipc>>
sideVars == <<voice, keystore, config>>
pureVars == <<inputText, normalized, escapedText, unescaped, screen, position>>

\* ---------------------------------------------------------------- helpers
\* The accumulated text if each chunk replaced it.
Concat_lastOnly(chunks) ==
  IF chunks = <<>> THEN <<>> ELSE chunks[Len(chunks)].text

\* pendingAIRequest.text after `pendingAIRequest.text += event.text` for each chunk
RECURSIVE Concat(_)
Concat(chunks) ==
  IF chunks = <<>> THEN <<>> ELSE Head(chunks).text \o Concat(Tail(chunks))

\* ----------------------------------------------------------- text functions
\* A text is a sequence of characters; the characters that matter to the text
\* functions are named: SP space, TAB, LF \n, CR \r, BSL backslash.
Whitespace == {"SP", "TAB", "LF", "CR"}
LineBreaks == {"CR", "LF"}

TextsOver(alphabet) == UNION {[1..k -> alphabet] : k \in 0..MaxTextLen}

\* text.replace(/^[\r\n]+/, '')
RECURSIVE StripLeadingBreaks(_)
StripLeadingBreaks(t) ==
  IF t # <<>> /\ Head(t) \in LineBreaks THEN StripLeadingBreaks(Tail(t)) ELSE t

\* text.replace(/[\r\n]+$/, '')
RECURSIVE StripTrailingBreaks(_)
StripTrailingBreaks(t) ==
  IF t # <<>> /\ t[Len(t)] \in LineBreaks
    THEN StripTrailingBreaks(SubSeq(t, 1, Len(t) - 1)) ELSE t

\* text.split(/\r?\n/): the lines of t, where a line ends at LF and a CR just
\* before that LF belongs to the separator.  cur is the line being read.
RECURSIVE SplitLines(_, _)
SplitLines(t, cur) ==
  IF t = <<>> THEN <<cur>>
  ELSE IF Head(t) = "LF"
    THEN <<IF cur # <<>> /\ cur[Len(cur)] = "CR"
             THEN SubSeq(cur, 1, Len(cur) - 1) ELSE cur>> \o SplitLines(Tail(t), <<>>)
    ELSE SplitLines(Tail(t), Append(cur, Head(t)))

\* line.trimStart()
RECURSIVE TrimStart(_)
TrimStart(line) ==
  IF line # <<>> /\ Head(line) \in Whitespace THEN TrimStart(Tail(line)) ELSE line

\* line.trimEnd()
RECURSIVE TrimEnd(_)
TrimEnd(line) ==
  IF line # <<>> /\ line[Len(line)] \in Whitespace
    THEN TrimEnd(SubSeq(line, 1, Len(line) - 1)) ELSE line

\* s.trim()
Trim(s) == TrimEnd(TrimStart(s))

\* lines.join('\n')
RECURSIVE JoinLines(_)
JoinLines(lines) ==
  IF lines = <<>> THEN <<>>
  ELSE IF Len(lines) = 1 THEN lines[1]
  ELSE lines[1] \o <<"LF">> \o JoinLines(Tail(lines))

\* normalizeTextForInjection(text), for a string
normalizeTextForInjection(t) ==
  LET stripped == StripTrailingBreaks(StripLeadingBreaks(t))
      lines == SplitLines(stripped, <<>>)
      normalizedLines == [i \in DOMAIN lines |-> TrimStart(lines[i])]
  IN IF stripped = <<>> THEN stripped ELSE JoinLines(normalizedLines)

\* text.replace(/c/g, rep) for a single character c
RECURSIVE ReplaceAll(_, _, _)
ReplaceAll(t, c, r) ==
  IF t = <<>> THEN <<>>
  ELSE (IF Head(t) = c THEN r ELSE <<Head(t)>>) \o ReplaceAll(Tail(t), c, r)

\* The escape if the backslashes were doubled last instead of first.
EscapeArg_backslashLast(t) ==
  ReplaceAll(ReplaceAll(ReplaceAll(ReplaceAll(t,
    "LF", <<"BSL", "n">>), "CR", <<"BSL", "r">>), "TAB", <<"BSL", "t">>),
    "BSL", <<"BSL", "BSL">>)

\* escapedText in autoInjectWithBackspace and auto-inject-text: four replace
\* calls, backslashes first.
EscapeArg(t) ==
  ReplaceAll(ReplaceAll(ReplaceAll(ReplaceAll(t,
    "BSL", <<"BSL", "BSL">>), "LF", <<"BSL", "n">>), "CR", <<"BSL", "r">>),
    "TAB", <<"BSL", "t">>)

\* keyboard_inject.py unescape_text: one pass from left to right that turns
\* the two-character sequences \\, \n, \r, \t back into one character.
RECURSIVE unescape_text(_)
unescape_text(t) ==
  IF t = <<>> THEN <<>>
  ELSE IF Head(t) = "BSL" /\ Len(t) >= 2 /\ t[2] \in {"BSL", "n", "r", "t"}
    THEN <<CASE t[2] = "BSL" -> "BSL" [] t[2] = "n" -> "LF"
             [] t[2] = "r" -> "CR" [] OTHER -> "TAB">> \o unescape_text(Tail(Tail(t)))
    ELSE <<Head(t)>> \o unescape_text(Tail(t))

\* -------------------------------------------------------- popup position
Max(a, b) == IF a >= b THEN a ELSE b

\* The x and y showOutputWindowAtCursor (and show-inline-suggestion) pass to
\* outputWindow.setPosition; all the values are integers, so Math.round
\* changes nothing.
PopupPosition(s) ==
  LET cursor == s.cursor
      workArea == s.workArea
      popupWidth == s.size.width
      popupHeight == s.size.height
      y0 == cursor.y + POPUP_BELOW
      y1 == IF y0 + popupHeight > workArea.y + workArea.height
              THEN cursor.y - popupHeight - FLIP_GAP ELSE y0
      x1 == IF cursor.x + popupWidth > workArea.x + workArea.width
              THEN workArea.x + workArea.width - popupWidth - EDGE_GAP ELSE cursor.x
  IN [x |-> Max(workArea.x, x1), y |-> Max(workArea.y, y1)]

NullRequest == [owner |-> 0, autoInject |-> FALSE, chunks |-> <<>>]

\* The arguments of a generate command: context.mode, prompt, context.instruction.
NoCommand == [mode |-> "none", prompt |-> <<>>, instruction |-> <<>>]

\* The answer of requestBuffer before the monitor has answered.
NoBuffer == [buffer |-> <<>>, raw_count |-> 0]

FreeSession ==
  [pc |-> "free", kind |-> "none", char_count |-> 0, cancelled |-> FALSE,
   st |-> "none", timer |-> FALSE, sentAt |-> 0, bufTimer |-> FALSE,
   wst |-> "none", produced |-> <<>>, arg |-> <<>>,
   clipboardText |-> <<>>, bufferData |-> NoBuffer, command |-> NoCommand]

NoPaste == [pc |-> "idle", arg |-> <<>>]

\* The providers whose keys are stored, named by their environment variable.
Providers == {"GROQ_API_KEY", "MISTRAL_API_KEY", "GOOGLE_API_KEY"}

\* The key arguments of saveApiKey: "" is the empty string.
KeyArgs == {"", "k1", "k2"}

\* keys[provider] of a provider without an entry.
Undefined == [type |-> "undefined"]

\* No keys file, safeStorage available, nothing saved. `saved` remembers, for
\* each provider, the key of the last saveApiKey and whether encryption was
\* available then; removeApiKey forgets it.
NoKeystore == [keys |-> [p \in Providers |-> Undefined], encryptionAvailable |-> TRUE,
               saved |-> [p \in Providers |-> <<>>]]

\* The three variables that loadCachedConfig looks for in the config files.
ApiKeyNames == {"MISTRAL_API_KEY", "REPLICATE_API_TOKEN", "GOOGLE_API_KEY"}

\* process.env and the config files have not been read: no cachedEnv.
NoConfig == [processEnv |-> <<>>, files |-> <<>>, cachedEnv |-> <<>>]

\* The recorder processes spawned by startVoiceRecording, in spawn order.
Recorders == 1..MaxRecorders

\* let voiceProcess = null; let isVoiceRecording = false; no recorder spawned,
\* transcribeSavedRecording not called.
NoVoice == [isVoiceRecording |-> FALSE, voiceProcess |-> 0,
            proc |-> [r \in Recorders |-> "none"], transcriptions |-> 0]

\* The two long-lived children: the keystroke monitor and the AI worker.
Children == {"monitor", "ai"}

\* will-quit has not run: no child was told to stop, no kill timer is pending.
NotQuitting == [called |-> FALSE, stopping |-> {}, killTimer |-> {}, killed |-> {}]

\* The child c has exited: it is no longer stopping or killed.
Exited(c) == [quit EXCEPT !.stopping = @ \ {c}, !.killed = @ \ {c}]

NoIpc == [pc |-> "idle", channel |-> "none", text |-> <<>>, arg |-> <<>>]

NoScreen == [cursor |-> [x |-> 0, y |-> 0],
             workArea |-> [x |-> 0, y |-> 0, width |-> 0, height |-> 0],
             size |-> [width |-> 0, height |-> 0]]

\* The orchestrator once app.whenReady has run: windows created, both children
\* spawned, nothing generated yet.
AppReady ==
  /\ masterEnabled = TRUE
  /\ autoInjectEnabled = FALSE
  /\ liveModeEnabled = FALSE
  /\ ultraHumanEnabled = FALSE
  /\ codingModeEnabled = FALSE
  /\ keystrokeMonitor = "running"
  /\ monitorAlive = 1
  /\ monitorRestartCount = 0
  /\ monitorRestartTimer = FALSE
  /\ monitorStreak = 0
  /\ aiBackend = "running"
  /\ aiAlive = 1
  /\ aiReportedOK = FALSE
  /\ aiBackendReady = FALSE
  /\ aiStartedDue = TRUE
  /\ aiRestartTimer = FALSE
  /\ aiStreak = 0
  /\ pendingAIRequest = NullRequest
  /\ pendingBufferResolve = 0
  /\ getBufferQueue = 0
  /\ sess = [s \in Requests |-> FreeSession]
  /\ nextSession = 1
  /\ pendingBackspaceCount = 0
  /\ triggerMode = "null"
  /\ lastGeneratedText = <<>>
  /\ lastSetBy = 0
  /\ lastCompleted = 0
  /\ outputVisible = FALSE
  /\ isWindowVisible = TRUE
  /\ paste = [p \in Pastes |-> NoPaste]
  /\ popupEvents = {}
  /\ now = 0
  /\ lastGeneratedExplanation = <<>>
  /\ explanationVisible = FALSE
  /\ clipboard = <<>>
  /\ ipc = NoIpc
  /\ quit = NotQuitting
  /\ voice = NoVoice
  /\ keystore = NoKeystore
  /\ config = NoConfig

\* No text function has been called and the popup has not been positioned.
NoCall ==
  /\ inputText = <<>>
  /\ normalized = <<>>
  /\ escapedText = <<>>
  /\ unescaped = <<>>
  /\ screen = NoScreen
  /\ position = <<>>

Init == AppReady /\ NoCall

\* ============================================================ supervision
\* startKeystrokeMonitor: spawn, attach handlers, then reset the restart count.
startKeystrokeMonitor ==
  /\ keystrokeMonitor' = "running"
  /\ monitorAlive' = monitorAlive + 1
  /\ monitorRestartCount' = 0

\* The monitor child writes its started line (only logged by the orchestrator).
MonitorStarted ==
  /\ keystrokeMonitor = "running"
  /\ monitorStreak > 0
  /\ monitorStreak' = 0
  /\ popupEvents' = {}
  /\ UNCHANGED <<settingsVars, keystrokeMonitor, monitorAlive, monitorRestartCount,
                 monitorRestartTimer,
                 aiProcVars, pendingAIRequest, bufferVars, sess, nextSession, resultVars,
                 lastCompleted, windowVars, paste, now,
                 explainVars, injectVars, quit, sideVars, pureVars>>

\* keystrokeMonitor.on('close', code)
MonitorClose(code, cap) ==
  /\ monitorAlive > 0
  /\ (code # 0 /\ masterEnabled) => monitorStreak < cap
  /\ monitorAlive' = monitorAlive - 1
  /\ keystrokeMonitor' = "null"
  /\ getBufferQueue' = 0
  /\ IF masterEnabled /\ code # 0 /\ monitorRestartCount < MONITOR_MAX_RESTARTS
       THEN /\ monitorRestartCount' = monitorRestartCount + 1
            /\ monitorRestartTimer' = TRUE
       ELSE UNCHANGED <<monitorRestartCount, monitorRestartTimer>>
  /\ quit' = Exited("monitor")
  /\ popupEvents' = {}
  /\ UNCHANGED <<settingsVars, monitorStreak, aiProcVars, pendingAIRequest,
                 pendingBufferResolve, sess, nextSession, resultVars, lastCompleted,
                 windowVars, paste, now,
                 explainVars, injectVars, sideVars, pureVars>>

\* the setTimeout(() => startKeystrokeMonitor(), MONITOR_RESTART_DELAY) callback
MonitorRestartFire ==
  /\ monitorRestartTimer
  /\ monitorRestartTimer' = FALSE
  /\ startKeystrokeMonitor
  /\ monitorStreak' = monitorStreak + 1
  /\ popupEvents' = {}
  /\ UNCHANGED <<settingsVars, aiProcVars, pendingAIRequest, bufferVars, sess, nextSession,
                 resultVars, lastCompleted, windowVars, paste, now,
                 explainVars, injectVars, quit, sideVars, pureVars>>

\* startAIBackend: spawn the worker and attach handlers.
startAIBackend ==
  /\ aiBackend' = "running"
  /\ aiAlive' = aiAlive + 1
  /\ aiReportedOK' = FALSE
  /\ aiStartedDue' = TRUE

\* The worker's queued requests die with the process.
WorkerLost(base) ==
  [s \in Sessions |-> IF base[s].wst = "queued" THEN [base[s] EXCEPT !.wst = "lost"] ELSE base[s]]

\* handleAIBackendEvent, event 'started', if success were not looked at.
AIStarted_alwaysReady(success) ==
  /\ aiBackend = "running"
  /\ aiStartedDue
  /\ aiStartedDue' = FALSE
  /\ aiBackendReady' = TRUE
  /\ aiReportedOK' = success
  /\ aiStreak' = IF success THEN 0 ELSE aiStreak
  /\ popupEvents' = {}
  /\ UNCHANGED <<settingsVars, monitorVars, aiBackend, aiAlive, aiRestartTimer,
                 pendingAIRequest, bufferVars, sess, nextSession, resultVars, lastCompleted,
                 windowVars, paste, now,
                 explainVars, injectVars, quit, sideVars, pureVars>>

\* handleAIBackendEvent, event 'started'
AIStarted(success) ==
  /\ aiBackend = "running"
  /\ aiStartedDue
  /\ aiStartedDue' = FALSE
  /\ aiBackendReady' = success
  /\ aiReportedOK' = success
  /\ aiStreak' = IF success THEN 0 ELSE aiStreak
  /\ popupEvents' = {}
  /\ UNCHANGED <<settingsVars, monitorVars, aiBackend, aiAlive, aiRestartTimer,
                 pendingAIRequest,
                 bufferVars, sess, nextSession, resultVars, lastCompleted, windowVars,
                 paste, now,
                 explainVars, injectVars, quit, sideVars, pureVars>>

\* aiBackend.on('close', code)
AIClose(code, cap) ==
  /\ aiAlive > 0
  /\ (code # 0 /\ masterEnabled) => aiStreak < cap
  /\ aiAlive' = aiAlive - 1
  /\ aiReportedOK' = FALSE
  /\ aiBackend' = "null"
  /\ aiBackendReady' = FALSE
  /\ aiStartedDue' = FALSE
  /\ aiRestartTimer' = IF masterEnabled /\ code # 0 THEN TRUE ELSE aiRestartTimer
  /\ sess' = WorkerLost(sess)
  /\ quit' = Exited("ai")
  /\ popupEvents' = {}
  /\ UNCHANGED <<settingsVars, monitorVars, aiStreak, pendingAIRequest, bufferVars,
                 nextSession, resultVars, lastCompleted, windowVars, paste, now,
                 explainVars, injectVars, sideVars, pureVars>>

\* the setTimeout(startAIBackend, 2000) callback
AIRestartFire ==
  /\ aiRestartTimer
  /\ aiRestartTimer' = FALSE
  /\ startAIBackend
  /\ aiStreak' = aiStreak + 1
  /\ popupEvents' = {}
  /\ UNCHANGED <<settingsVars, monitorVars, aiBackendReady, pendingAIRequest, bufferVars,
                 sess, nextSession, resultVars, lastCompleted, windowVars, paste, now,
                 explainVars, injectVars, quit, sideVars, pureVars>>

\* ------------------------------------------------------------------- quit
\* The children whose handle is set: stopKeystrokeMonitor and stopAIBackend act
\* on these only.
HandleSet ==
  {c \in Children : IF c = "monitor" THEN keystrokeMonitor # "null" ELSE aiBackend # "null"}

\* app.on('will-quit'): stopKeystrokeMonitor(); stopAIBackend(). Each sends the
\* shutdown command and arms a 1 s kill timer if the child's handle is set.
willQuit ==
  /\ ~quit.called
  /\ quit' = [called |-> TRUE, stopping |-> HandleSet, killTimer |-> HandleSet,
              killed |-> {}]
  /\ popupEvents' = {}
  /\ UNCHANGED <<settingsVars, monitorVars, aiProcVars, pendingAIRequest, bufferVars,
                 sess, nextSession, resultVars, lastCompleted, windowVars, paste, now,
                 explainVars, injectVars, sideVars, pureVars>>

\* the setTimeout(() => { if (child) child.kill() }, 1000) callback of a stop
KillFire(c) ==
  /\ c \in quit.killTimer
  /\ quit' = [quit EXCEPT !.killTimer = @ \ {c},
                          !.killed = IF c \in HandleSet THEN @ \cup {c} ELSE @]
  /\ popupEvents' = {}
  /\ UNCHANGED <<settingsVars, monitorVars, aiProcVars, pendingAIRequest, bufferVars,
                 sess, nextSession, resultVars, lastCompleted, windowVars, paste, now,
                 explainVars, injectVars, sideVars, pureVars>>

\* ======================================================== AI request slot
InFlight(base) == {s \in Sessions : base[s].st = "pending"}

\* sendToAIBackend: the command is written only to a live worker that is ready.
sendToAIBackend == aiBackend = "running" /\ aiBackendReady

\* generateExplanation(clipboardText, result.text): the call
\* generateTextStreaming('explanation', problemText, codeText, true) as request e.
\* With autoInject = true it sends no stream-start; its catch block hides nothing.
generateExplanation(e, base) ==
  IF ~aiBackendReady
    THEN /\ sess' = [base EXCEPT ![e].kind = "explanation", ![e].st = "rejected",
                                 ![e].pc = "done"]
         /\ pendingAIRequest' = NullRequest
    ELSE IF sendToAIBackend
      THEN /\ pendingAIRequest' = [owner |-> e, autoInject |-> TRUE, chunks |-> <<>>]
           /\ sess' = [base EXCEPT ![e].kind = "explanation", ![e].st = "pending",
                                   ![e].pc = "waiting", ![e].timer = TRUE,
                                   ![e].sentAt = now, ![e].wst = "queued"]
      ELSE /\ pendingAIRequest' = NullRequest
           /\ sess' = [base EXCEPT ![e].kind = "explanation", ![e].st = "rejected",
                                   ![e].pc = "done", ![e].timer = TRUE,
                                   ![e].sentAt = now]

\* The rest of a handler once its generateTextStreaming promise settles
\* (handleKeystrokeEvent 682-717, handleClipboardTrigger 1132-1163,
\* generateExplanation 948-957), after the settling callback has emptied the
\* request slot.  ok = resolved.  pendingBackspaceCount is read here, when the
\* injector is spawned.
Settle(o, base, ok, text) ==
  IF base[o].st # "pending"
    THEN /\ sess' = base
         /\ pendingAIRequest' = NullRequest
         /\ UNCHANGED <<lastGeneratedText, lastSetBy, lastCompleted, outputVisible>>
    ELSE IF base[o].kind = "explanation"
      THEN \* lastGeneratedExplanation and 'display-explanation' to the explanation window
           /\ sess' = [base EXCEPT ![o].st = IF ok THEN "resolved" ELSE "rejected",
                                   ![o].pc = "done"]
           /\ pendingAIRequest' = NullRequest
           /\ UNCHANGED <<lastGeneratedText, lastSetBy, lastCompleted, outputVisible>>
    ELSE IF ~ok
      THEN /\ sess' = [base EXCEPT ![o].st = "rejected", ![o].pc = "done"]
           /\ pendingAIRequest' = NullRequest
           /\ outputVisible' = IF autoInjectEnabled THEN outputVisible ELSE FALSE
           /\ UNCHANGED <<lastGeneratedText, lastSetBy, lastCompleted>>
      ELSE /\ lastCompleted' = o
           /\ UNCHANGED outputVisible
           /\ IF text = <<>>
                THEN /\ sess' = [base EXCEPT ![o].st = "resolved", ![o].pc = "done"]
                     /\ pendingAIRequest' = NullRequest
                     /\ UNCHANGED <<lastGeneratedText, lastSetBy>>
                ELSE /\ lastGeneratedText' = text
                     /\ lastSetBy' = o
                     /\ IF autoInjectEnabled
                          THEN \* autoInjectWithBackspace(result.text, pendingBackspaceCount, ...):
                               \* the injector is spawned with the normalized text
                               /\ sess' = [base EXCEPT ![o].st = "resolved",
                                                       ![o].pc = "injecting",
                                                       ![o].arg =
                                                         normalizeTextForInjection(text)]
                               /\ pendingAIRequest' = NullRequest
                          ELSE IF base[o].kind = "clipboard" /\ codingModeEnabled
                            THEN \* showExplanationWindow(); generateExplanation(...)
                                 generateExplanation(Explanation(o),
                                   [base EXCEPT ![o].st = "resolved", ![o].pc = "done"])
                            ELSE /\ sess' = [base EXCEPT ![o].st = "resolved",
                                                         ![o].pc = "done"]
                                 /\ pendingAIRequest' = NullRequest

\* lastGeneratedExplanation once the handler of request o has run after its
\* promise settled, before being its value when the promise settles:
\* generateExplanation stores a non-empty result (948-950), handleClipboardTrigger
\* empties it on a non-empty result (1134), handleKeystrokeEvent assigns it only
\* for a result that carries an explanation (685-687).
ExplanationAfter(o, base, ok, text, before) ==
  IF base[o].st # "pending" \/ ~ok \/ text = <<>> THEN before
  ELSE IF base[o].kind = "explanation" THEN text
  ELSE IF base[o].kind = "clipboard" THEN <<>>
  ELSE before

\* showExplanationWindow() is called by handleClipboardTrigger for a non-empty
\* result in coding mode without auto-inject (1137-1140).
ExplanationShown(o, base, ok, text) ==
  /\ base[o].st = "pending" /\ ok /\ text # <<>>
  /\ base[o].kind = "clipboard"
  /\ codingModeEnabled /\ ~autoInjectEnabled

\* `if (outputWindow && !autoInject) outputWindow.webContents.send('stream-start')`
StreamStart(autoInject) == IF autoInject THEN {} ELSE {"stream-start"}

\* generateTextStreaming if stream-start were sent whatever autoInject is.
generateTextStreaming_alwaysStreamStart(s, base, vis) ==
  IF ~aiBackendReady
    THEN /\ sess' = [base EXCEPT ![s].st = "rejected", ![s].pc = "done"]
         /\ outputVisible' = IF autoInjectEnabled THEN vis ELSE FALSE
         /\ popupEvents' = {}
         /\ UNCHANGED pendingAIRequest
    ELSE /\ popupEvents' = {"stream-start"}
         /\ IF sendToAIBackend
              THEN /\ pendingAIRequest' = [owner |-> s, autoInject |-> autoInjectEnabled,
                                           chunks |-> <<>>]
                   /\ sess' = [base EXCEPT ![s].st = "pending", ![s].pc = "waiting",
                                           ![s].timer = TRUE, ![s].sentAt = now,
                                           ![s].wst = "queued"]
                   /\ outputVisible' = vis
              ELSE /\ pendingAIRequest' = NullRequest
                   /\ sess' = [base EXCEPT ![s].st = "rejected", ![s].pc = "done",
                                           ![s].timer = TRUE, ![s].sentAt = now]
                   /\ outputVisible' = IF autoInjectEnabled THEN vis ELSE FALSE

\* generateTextStreaming(mode, buffer, extraParam, autoInjectEnabled) called by the
\* handler of session s, with the caller's catch block for the immediate rejections.
generateTextStreaming(s, base, vis) ==
  IF ~aiBackendReady
    THEN /\ sess' = [base EXCEPT ![s].st = "rejected", ![s].pc = "done"]
         /\ outputVisible' = IF autoInjectEnabled THEN vis ELSE FALSE
         /\ popupEvents' = {}
         /\ UNCHANGED pendingAIRequest
    ELSE /\ popupEvents' = StreamStart(autoInjectEnabled)
         /\ IF sendToAIBackend
              THEN /\ pendingAIRequest' = [owner |-> s, autoInject |-> autoInjectEnabled,
                                           chunks |-> <<>>]
                   /\ sess' = [base EXCEPT ![s].st = "pending", ![s].pc = "waiting",
                                           ![s].timer = TRUE, ![s].sentAt = now,
                                           ![s].wst = "queued"]
                   /\ outputVisible' = vis
              ELSE /\ pendingAIRequest' = NullRequest
                   /\ sess' = [base EXCEPT ![s].st = "rejected", ![s].pc = "done",
                                           ![s].timer = TRUE, ![s].sentAt = now]
                   /\ outputVisible' = IF autoInjectEnabled THEN vis ELSE FALSE

\* The buffer test if it compared the buffer itself with the empty string.
BufferBlank_noTrim(buffer) == buffer = <<>>

\* `!buffer || buffer.trim().length === 0`
BufferBlank(buffer) == Trim(buffer) = <<>>

\* handleKeystrokeEvent, event 'trigger'
handleKeystrokeEvent(type, bufferEmpty, char_count) ==
  /\ keystrokeMonitor = "running"
  /\ nextSession <= MaxSessions
  /\ IF \/ ~masterEnabled
        \/ bufferEmpty
        \/ (type = "live" /\ ~liveModeEnabled)
       THEN /\ popupEvents' = {}
            /\ UNCHANGED <<pendingBackspaceCount, triggerMode, sess, nextSession,
                           outputVisible, pendingAIRequest>>
       ELSE LET s == nextSession
                base == [sess EXCEPT ![s].kind = type, ![s].char_count = char_count]
            IN /\ pendingBackspaceCount' = char_count
               /\ triggerMode' = type
               /\ nextSession' = s + 1
               /\ IF ~autoInjectEnabled
                    THEN \* await showOutputWindowAtCursor(): showInactive, 30 ms wait
                         /\ outputVisible' = TRUE
                         /\ popupEvents' = {}
                         /\ sess' = [base EXCEPT ![s].pc = "showing"]
                         /\ UNCHANGED pendingAIRequest
                    ELSE generateTextStreaming(s, base, outputVisible)
  /\ UNCHANGED <<settingsVars, monitorVars, aiProcVars, bufferVars, lastGeneratedText,
                 lastSetBy, lastCompleted, isWindowVisible, paste, now,
                 explainVars, injectVars, quit, sideVars, pureVars>>

\* The 30 ms wait of showOutputWindowAtCursor is over: the handler goes on to
\* generateTextStreaming (handleKeystrokeEvent 673-680, handleClipboardTrigger 1123-1130).
ShowDone(s) ==
  /\ sess[s].pc = "showing"
  /\ generateTextStreaming(s, sess, outputVisible)
  /\ UNCHANGED <<settingsVars, monitorVars, aiProcVars, bufferVars, nextSession, resultVars,
                 lastCompleted, isWindowVisible, paste, now,
                 explainVars, injectVars, quit, sideVars, pureVars>>

\* the events handleAIBackendEvent sends to the output window for one chunk
StreamEvents(final) == IF final THEN {"stream-chunk", "stream-end"} ELSE {"stream-chunk"}

\* handleAIBackendEvent, event 'chunk': the worker writes a chunk it produced for
\* request r; the line carries no request id.
handleAIBackendEvent_chunk(r, text, final) ==
  /\ aiBackend = "running"
  /\ sess[r].wst = "queued"
  /\ Len(sess[r].produced) < MaxChunks
  /\ LET o == pendingAIRequest.owner
         base == [sess EXCEPT ![r].produced = Append(@, text),
                              ![r].wst = IF final THEN "done" ELSE @]
         chunks == Append(pendingAIRequest.chunks, [req |-> r, text |-> text])
     IN \* stream-chunk and stream-end go to the output window unless the
        \* pending request was made with autoInject
        /\ popupEvents' = IF o # 0 /\ ~pendingAIRequest.autoInject
                            THEN StreamEvents(final) ELSE {}
        /\ IF o = 0
          THEN /\ sess' = base
               /\ UNCHANGED <<pendingAIRequest, lastGeneratedText, lastSetBy, lastCompleted,
                              outputVisible>>
          ELSE IF ~final
            THEN /\ pendingAIRequest' = [pendingAIRequest EXCEPT !.chunks = chunks]
                 /\ sess' = base
                 /\ UNCHANGED <<lastGeneratedText, lastSetBy, lastCompleted, outputVisible>>
            ELSE Settle(o, base, TRUE, Concat(chunks))
        \* the final event carries no explanation: lastGeneratedExplanation = '' (528-532)
        /\ lastGeneratedExplanation' =
             IF o = 0 \/ ~final THEN lastGeneratedExplanation
             ELSE ExplanationAfter(o, base, TRUE, Concat(chunks), <<>>)
        /\ explanationVisible' =
             (explanationVisible \/
                (o # 0 /\ final /\ ExplanationShown(o, base, TRUE, Concat(chunks))))
  /\ UNCHANGED <<settingsVars, monitorVars, aiProcVars, bufferVars, nextSession,
                 pendingBackspaceCount, triggerMode, isWindowVisible, paste, now,
                 injectVars, quit, sideVars, pureVars>>

\* handleAIBackendEvent, event 'error'
handleAIBackendEvent_error(r) ==
  /\ aiBackend = "running"
  /\ sess[r].wst = "queued"
  /\ LET base == [sess EXCEPT ![r].wst = "done"]
         o == pendingAIRequest.owner
     IN IF o = 0
          THEN /\ sess' = base
               /\ UNCHANGED <<pendingAIRequest, lastGeneratedText, lastSetBy, lastCompleted,
                              outputVisible>>
          ELSE Settle(o, base, FALSE, <<>>)
  /\ popupEvents' = {}
  /\ UNCHANGED <<settingsVars, monitorVars, aiProcVars, bufferVars, nextSession,
                 pendingBackspaceCount, triggerMode, isWindowVisible, paste, now,
                 explainVars, injectVars, quit, sideVars, pureVars>>

\* handleAIBackendEvent, event 'complete' (a non-streaming answer)
handleAIBackendEvent_complete(r, text) ==
  /\ aiBackend = "running"
  /\ sess[r].wst = "queued"
  /\ LET base == [sess EXCEPT ![r].wst = "done"]
         o == pendingAIRequest.owner
     IN /\ IF o = 0
             THEN /\ sess' = base
                  /\ UNCHANGED <<pendingAIRequest, lastGeneratedText, lastSetBy,
                                 lastCompleted, outputVisible>>
             ELSE Settle(o, base, TRUE, text)
        /\ lastGeneratedExplanation' =
             IF o = 0 THEN lastGeneratedExplanation
             ELSE ExplanationAfter(o, base, TRUE, text, lastGeneratedExplanation)
        /\ explanationVisible' =
             (explanationVisible \/ (o # 0 /\ ExplanationShown(o, base, TRUE, text)))
  /\ popupEvents' = {}
  /\ UNCHANGED <<settingsVars, monitorVars, aiProcVars, bufferVars, nextSession,
                 pendingBackspaceCount, triggerMode, isWindowVisible, paste, now,
                 injectVars, quit, sideVars, pureVars>>

\* the 60 s setTimeout callback created by the generateTextStreaming call of session r
GenTimeoutFire(r) ==
  /\ sess[r].timer
  /\ now >= sess[r].sentAt + GEN_TIMEOUT
  /\ LET base == [sess EXCEPT ![r].timer = FALSE]
         partialText == Concat(pendingAIRequest.chunks)
     IN /\ IF pendingAIRequest.owner = 0
             THEN /\ sess' = base
                  /\ UNCHANGED <<pendingAIRequest, lastGeneratedText, lastSetBy,
                                 lastCompleted, outputVisible>>
             ELSE Settle(r, base, partialText # <<>>, partialText)
        /\ lastGeneratedExplanation' =
             IF pendingAIRequest.owner = 0 THEN lastGeneratedExplanation
             ELSE ExplanationAfter(r, base, partialText # <<>>, partialText,
                                   lastGeneratedExplanation)
        /\ explanationVisible' =
             (explanationVisible \/
                (pendingAIRequest.owner # 0
                   /\ ExplanationShown(r, base, partialText # <<>>, partialText)))
  /\ popupEvents' = {}
  /\ UNCHANGED <<settingsVars, monitorVars, aiProcVars, bufferVars, nextSession,
                 pendingBackspaceCount, triggerMode, isWindowVisible, paste, now,
                 injectVars, quit, sideVars, pureVars>>

\* How an injector run can end: exit code 0; a failure (non-zero exit code or
\* spawn error) with the clipboard fallback; a failure where robot.keyTap
\* throws after the clipboard was written; a failure where clipboard.writeText
\* throws.
InjectorOutcomes == {"python-inject", "clipboard-fallback", "keyTap-throws",
                     "clipboard-throws"}

\* The clipboard if every injector run wrote the text to it.
ClipboardAfter_always(outcome, t) == t

\* The clipboard after an injector run that ended with outcome: the fallback
\* of a failed run writes t with clipboard.writeText.
ClipboardAfter(outcome, t) ==
  IF outcome \in {"clipboard-fallback", "keyTap-throws"} THEN t ELSE clipboard

\* autoInjectWithBackspace's injector process closes.  When the promise resolves
\* the handler clears the state (702-707, 1148-1153); when keyTap throws inside
\* the 50 ms timer the promise is never resolved and the handler stays
\* suspended ("stuck").
InjectorClose(s, outcome) ==
  /\ sess[s].pc = "injecting"
  /\ clipboard' = ClipboardAfter(outcome, sess[s].arg)
  /\ IF outcome = "keyTap-throws"
       THEN /\ sess' = [sess EXCEPT ![s].pc = "stuck"]
            /\ UNCHANGED <<resultVars, lastGeneratedExplanation>>
       ELSE /\ sess' = [sess EXCEPT ![s].pc = "done", ![s].arg = <<>>]
            /\ lastGeneratedText' = <<>>
            /\ lastGeneratedExplanation' = <<>>
            /\ lastSetBy' = 0
            /\ pendingBackspaceCount' = 0
            /\ triggerMode' = "null"
  /\ popupEvents' = {}
  /\ UNCHANGED <<settingsVars, monitorVars, aiProcVars, pendingAIRequest, bufferVars,
                 nextSession, lastCompleted, windowVars, paste, now,
                 explanationVisible, ipc, quit, sideVars, pureVars>>

\* ============================================================== clipboard
\* The code after `await requestBuffer()` in handleClipboardTrigger (1106-1130);
\* command holds the arguments of the generateTextStreaming call at 1126 / 1129.
ClipboardContinue(s, base, buffer, raw_count) ==
  LET typedInstruction == Trim(buffer)
      count == IF typedInstruction # <<>> THEN raw_count ELSE 0
      b2 == [base EXCEPT
               ![s].char_count = count,
               ![s].bufferData = [buffer |-> buffer, raw_count |-> raw_count],
               ![s].command =
                 IF typedInstruction # <<>>
                   THEN [mode |-> "clipboard_with_instruction",
                         prompt |-> base[s].clipboardText,
                         instruction |-> typedInstruction]
                   ELSE [mode |-> "clipboard", prompt |-> base[s].clipboardText,
                         instruction |-> <<>>]]
  IN /\ pendingBackspaceCount' = count
     /\ triggerMode' = "clipboard"
     /\ IF ~autoInjectEnabled
          THEN /\ outputVisible' = TRUE
               /\ popupEvents' = {}
               /\ sess' = [b2 EXCEPT ![s].pc = "showing"]
               /\ UNCHANGED pendingAIRequest
          ELSE generateTextStreaming(s, b2, outputVisible)

\* clipboardShortcut -> handleClipboardTrigger up to `await requestBuffer()`
\* clipboardText is what clipboard.readText() returns.
handleClipboardTrigger(clipboardText) ==
  /\ nextSession <= MaxSessions
  /\ IF BufferBlank(clipboardText)
       THEN UNCHANGED <<sess, nextSession, bufferVars>>
       ELSE LET s == nextSession
            IN /\ nextSession' = s + 1
               /\ sess' = [sess EXCEPT ![s].kind = "clipboard", ![s].pc = "buffer",
                                       ![s].bufTimer = TRUE,
                                       ![s].clipboardText = clipboardText]
               \* requestBuffer: take the slot, sendToMonitor(get_buffer), 500 ms timer
               /\ pendingBufferResolve' = s
               /\ getBufferQueue' = IF keystrokeMonitor = "running"
                                      THEN getBufferQueue + 1 ELSE getBufferQueue
  /\ popupEvents' = {}
  /\ UNCHANGED <<settingsVars, monitorVars, aiProcVars, pendingAIRequest, resultVars,
                 lastCompleted, windowVars, paste, now,
                 explainVars, injectVars, quit, sideVars, pureVars>>

\* handleKeystrokeEvent, event 'buffer': the monitor answers one get_buffer.
handleKeystrokeEvent_buffer(buffer, raw_count) ==
  /\ keystrokeMonitor = "running"
  /\ getBufferQueue > 0
  /\ getBufferQueue' = getBufferQueue - 1
  /\ IF pendingBufferResolve = 0
       THEN /\ popupEvents' = {}
            /\ UNCHANGED <<pendingBufferResolve, sess, pendingBackspaceCount, triggerMode,
                           outputVisible, pendingAIRequest>>
       ELSE /\ pendingBufferResolve' = 0
            /\ ClipboardContinue(pendingBufferResolve, sess, buffer, raw_count)
  /\ UNCHANGED <<settingsVars, monitorVars, aiProcVars, nextSession, lastGeneratedText,
                 lastSetBy, lastCompleted, isWindowVisible, paste, now,
                 explainVars, injectVars, quit, sideVars, pureVars>>

\* the 500 ms setTimeout callback created by the requestBuffer call of session s
BufferTimeoutFire(s) ==
  /\ sess[s].bufTimer
  /\ LET base == [sess EXCEPT ![s].bufTimer = FALSE]
     IN IF pendingBufferResolve = 0
          THEN /\ sess' = base
               /\ popupEvents' = {}
               /\ UNCHANGED <<pendingBufferResolve, pendingBackspaceCount, triggerMode,
                              outputVisible, pendingAIRequest>>
          ELSE /\ pendingBufferResolve' = 0
               /\ ClipboardContinue(pendingBufferResolve, base, <<>>, 0)
  /\ UNCHANGED <<settingsVars, monitorVars, aiProcVars, getBufferQueue, nextSession,
                 lastGeneratedText, lastSetBy, lastCompleted, isWindowVisible, paste, now,
                 explainVars, injectVars, quit, sideVars, pureVars>>

\* ================================================================ hotkeys
\* The result of a finished session is held for the Paste hotkey.
Presenting ==
  /\ lastGeneratedText # <<>>
  /\ lastSetBy # 0
  /\ sess[lastSetBy].pc = "done"

\* handleKeystrokeEvent, event 'window_change'
handleKeystrokeEvent_window_change ==
  /\ keystrokeMonitor = "running"
  /\ pendingBackspaceCount' = 0
  /\ triggerMode' = "null"
  /\ popupEvents' = {}
  /\ UNCHANGED <<settingsVars, monitorVars, aiProcVars, pendingAIRequest, bufferVars, sess,
                 nextSession, lastGeneratedText, lastSetBy, lastCompleted, windowVars, paste, now,
                 explainVars, injectVars, quit, sideVars, pureVars>>

\* The Escape handler if it left the explanation and its window alone.
Escape_keepsExplanation ==
  /\ outputVisible' = FALSE
  /\ lastGeneratedText' = <<>>
  /\ lastSetBy' = 0
  /\ pendingBackspaceCount' = 0
  /\ triggerMode' = "null"
  /\ sess' = [s \in Requests |->
                IF sess[s].pc = "waiting"
                  THEN [sess[s] EXCEPT !.cancelled = TRUE] ELSE sess[s]]
  /\ popupEvents' = {}
  /\ UNCHANGED <<settingsVars, monitorVars, aiProcVars, pendingAIRequest, bufferVars,
                 nextSession, lastCompleted, isWindowVisible, paste, now,
                 explainVars, injectVars, quit, sideVars, pureVars>>

\* uIOhook keydown, keycode 1 (Escape).  cancelled is history: the sessions whose
\* generation request was in flight when Escape was pressed.
Escape ==
  /\ outputVisible' = FALSE
  /\ lastGeneratedText' = <<>>
  /\ lastSetBy' = 0
  /\ pendingBackspaceCount' = 0
  /\ triggerMode' = "null"
  /\ explanationVisible' = FALSE
  /\ lastGeneratedExplanation' = <<>>
  /\ sess' = [s \in Requests |->
                IF sess[s].pc = "waiting"
                  THEN [sess[s] EXCEPT !.cancelled = TRUE] ELSE sess[s]]
  /\ popupEvents' = {}
  /\ UNCHANGED <<settingsVars, monitorVars, aiProcVars, pendingAIRequest, bufferVars,
                 nextSession, lastCompleted, isWindowVisible, paste, now,
                 injectVars, quit, sideVars, pureVars>>

\* The overlay toggle if showing the prompt bar kept the backspace count.
toggleShortcut_keepsCount ==
  /\ IF isWindowVisible
       THEN /\ isWindowVisible' = FALSE
            /\ UNCHANGED <<triggerMode, pendingBackspaceCount>>
       ELSE /\ isWindowVisible' = TRUE
            /\ triggerMode' = "prompt"
            /\ UNCHANGED pendingBackspaceCount
  /\ popupEvents' = {}
  /\ UNCHANGED <<settingsVars, monitorVars, aiProcVars, pendingAIRequest, bufferVars, sess,
                 nextSession, lastGeneratedText, lastSetBy, lastCompleted, outputVisible,
                 paste, now,
                 explainVars, injectVars, quit, sideVars, pureVars>>

\* toggleShortcut (CommandOrControl+Shift+Space)
toggleShortcut ==
  /\ IF isWindowVisible
       THEN /\ isWindowVisible' = FALSE
            /\ UNCHANGED <<triggerMode, pendingBackspaceCount>>
       ELSE /\ isWindowVisible' = TRUE
            /\ triggerMode' = "prompt"
            /\ pendingBackspaceCount' = 0
  /\ popupEvents' = {}
  /\ UNCHANGED <<settingsVars, monitorVars, aiProcVars, pendingAIRequest, bufferVars, sess,
                 nextSession, lastGeneratedText, lastSetBy, lastCompleted, outputVisible,
                 paste, now,
                 explainVars, injectVars, quit, sideVars, pureVars>>

\* screenshotShortcut -> handleScreenshotTrigger
handleScreenshotTrigger ==
  /\ triggerMode' = "screenshot"
  /\ pendingBackspaceCount' = 0
  /\ outputVisible' = TRUE
  /\ popupEvents' = {}
  /\ UNCHANGED <<settingsVars, monitorVars, aiProcVars, pendingAIRequest, bufferVars, sess,
                 nextSession, lastGeneratedText, lastSetBy, lastCompleted, isWindowVisible,
                 paste, now,
                 explainVars, injectVars, quit, sideVars, pureVars>>

\* ================================================================== paste
ResetAfterPaste ==
  /\ lastGeneratedText' = <<>>
  /\ lastGeneratedExplanation' = <<>>
  /\ lastSetBy' = 0
  /\ pendingBackspaceCount' = 0
  /\ triggerMode' = "null"

\* ipcMain 'set-generated-text': the renderer stores a text for the Paste hotkey.
SetGeneratedText(t) ==
  /\ lastGeneratedText' = t
  /\ lastSetBy' = 0
  /\ popupEvents' = {}
  /\ UNCHANGED <<settingsVars, monitorVars, aiProcVars, pendingAIRequest, bufferVars, sess,
                 nextSession, pendingBackspaceCount, triggerMode, lastCompleted, windowVars,
                 paste, now, explainVars, injectVars, quit, sideVars, pureVars>>

\* The Paste hotkey callback if it did not test lastGeneratedText.
pasteShortcut_noTest(p) ==
  /\ paste[p].pc = "idle"
  /\ \A q \in Pastes : q < p => paste[q].pc # "idle"
  /\ isWindowVisible' = FALSE
  /\ outputVisible' = FALSE
  /\ explanationVisible' = FALSE
  /\ paste' = [paste EXCEPT ![p].pc = IF ultraHumanEnabled THEN "ultraDelay" ELSE "delay"]
  /\ popupEvents' = {}
  /\ UNCHANGED <<settingsVars, monitorVars, aiProcVars, pendingAIRequest, bufferVars, sess,
                 nextSession, resultVars, lastCompleted, now,
                 lastGeneratedExplanation, injectVars, quit, sideVars, pureVars>>

\* pasteShortcut (CommandOrControl+Shift+P) up to its first await: the whole
\* callback is inside `if (lastGeneratedText)`.
pasteShortcut(p) ==
  /\ paste[p].pc = "idle"
  /\ \A q \in Pastes : q < p => paste[q].pc # "idle"
  /\ IF lastGeneratedText # <<>>
       THEN /\ isWindowVisible' = FALSE
            /\ outputVisible' = FALSE
            /\ explanationVisible' = FALSE
            /\ paste' = [paste EXCEPT
                           ![p].pc = IF ultraHumanEnabled THEN "ultraDelay" ELSE "delay"]
       ELSE UNCHANGED <<isWindowVisible, outputVisible, explanationVisible, paste>>
  /\ popupEvents' = {}
  /\ UNCHANGED <<settingsVars, monitorVars, aiProcVars, pendingAIRequest, bufferVars, sess,
                 nextSession, resultVars, lastCompleted, now,
                 lastGeneratedExplanation, injectVars, quit, sideVars, pureVars>>

\* pasteShortcut after the 150 ms wait: lastGeneratedText and pendingBackspaceCount
\* are read now, the text is escaped as it is and the injector command is
\* exec'd (1330-1353).
pasteShortcut_exec(p) ==
  /\ paste[p].pc = "delay"
  /\ paste' = [paste EXCEPT ![p].pc = "exec", ![p].arg = lastGeneratedText]
  /\ popupEvents' = {}
  /\ UNCHANGED <<settingsVars, monitorVars, aiProcVars, pendingAIRequest, bufferVars, sess,
                 nextSession, resultVars, lastCompleted, windowVars, now,
                 explainVars, injectVars, quit, sideVars, pureVars>>

\* the exec callback (1353-1385): on error the fallback writes the current
\* lastGeneratedText to the clipboard (a throwing writeText or keyTap is
\* caught), then the state is reset.
pasteShortcut_callback(p, outcome) ==
  /\ paste[p].pc = "exec"
  /\ paste' = [paste EXCEPT ![p] = NoPaste]
  /\ clipboard' = ClipboardAfter(outcome, lastGeneratedText)
  /\ ResetAfterPaste
  /\ popupEvents' = {}
  /\ UNCHANGED <<settingsVars, monitorVars, aiProcVars, pendingAIRequest, bufferVars, sess,
                 nextSession, lastCompleted, windowVars, now,
                 explanationVisible, ipc, quit, sideVars, pureVars>>

\* Ultra Human branch after the 150 ms wait (1258-1276): the typer is spawned with
\* the clipboard text, or the callback returns when the clipboard is blank.
pasteShortcut_ultra(p, clipboardEmpty) ==
  /\ paste[p].pc = "ultraDelay"
  /\ paste' = [paste EXCEPT ![p].pc = IF clipboardEmpty THEN "idle" ELSE "ultraRun"]
  /\ popupEvents' = {}
  /\ UNCHANGED <<settingsVars, monitorVars, aiProcVars, pendingAIRequest, bufferVars, sess,
                 nextSession, resultVars, lastCompleted, windowVars, now,
                 explainVars, injectVars, quit, sideVars, pureVars>>

\* ultraProcess 'close' (1286-1299) or 'error' (1301-1310)
pasteShortcut_ultraEnd(p, spawnError) ==
  /\ paste[p].pc = "ultraRun"
  /\ paste' = [paste EXCEPT ![p].pc = "idle"]
  /\ IF spawnError
       THEN /\ clipboard' = lastGeneratedText
            /\ lastGeneratedText' = <<>>
            /\ lastGeneratedExplanation' = <<>>
            /\ lastSetBy' = 0
            /\ UNCHANGED <<pendingBackspaceCount, triggerMode>>
       ELSE /\ ResetAfterPaste
            /\ UNCHANGED clipboard
  /\ popupEvents' = {}
  /\ UNCHANGED <<settingsVars, monitorVars, aiProcVars, pendingAIRequest, bufferVars, sess,
                 nextSession, lastCompleted, windowVars, now,
                 explanationVisible, ipc, quit, sideVars, pureVars>>

\* ============================================================ IPC injection
InjectChannels == {"auto-inject-text", "inject-text"}

\* ipcMain 'auto-inject-text' (1753-1770) and 'inject-text' (1832-1847) up to
\* the 150 ms wait: the text is normalized and the windows are hidden.
ipcInjectText(channel, t) ==
  /\ ipc.pc = "idle"
  /\ ipc' = [pc |-> "delay", channel |-> channel, text |-> t,
             arg |-> normalizeTextForInjection(t)]
  /\ isWindowVisible' = FALSE
  /\ outputVisible' = FALSE
  /\ popupEvents' = {}
  /\ UNCHANGED <<settingsVars, monitorVars, aiProcVars, pendingAIRequest, bufferVars, sess,
                 nextSession, resultVars, lastCompleted, paste, now,
                 explainVars, clipboard, quit, sideVars, pureVars>>

\* after the wait the injector is started with the escaped text (1776-1794, 1852-1865)
ipcInjectText_spawn ==
  /\ ipc.pc = "delay"
  /\ ipc' = [ipc EXCEPT !.pc = "run"]
  /\ popupEvents' = {}
  /\ UNCHANGED <<settingsVars, monitorVars, aiProcVars, pendingAIRequest, bufferVars, sess,
                 nextSession, resultVars, lastCompleted, windowVars, paste, now,
                 explainVars, clipboard, quit, sideVars, pureVars>>

\* the injector ends: 'close' of auto-inject-text clears the state and falls
\* back to the clipboard on a non-zero code (1796-1816); the exec callback of
\* inject-text falls back on error and leaves the state alone (1865-1884).
ipcInjectText_end(outcome) ==
  /\ ipc.pc = "run"
  /\ ipc' = NoIpc
  /\ clipboard' = ClipboardAfter(outcome, ipc.arg)
  /\ IF ipc.channel = "auto-inject-text"
       THEN /\ lastGeneratedText' = <<>>
            /\ lastSetBy' = 0
            /\ pendingBackspaceCount' = 0
            /\ triggerMode' = "null"
       ELSE UNCHANGED resultVars
  /\ popupEvents' = {}
  /\ UNCHANGED <<settingsVars, monitorVars, aiProcVars, pendingAIRequest, bufferVars, sess,
                 nextSession, lastCompleted, windowVars, paste, now,
                 explainVars, quit, sideVars, pureVars>>

\* =============================================================== settings
\* ipcMain 'set-auto-inject'
SetAutoInject(enabled) ==
  /\ enabled # autoInjectEnabled
  /\ autoInjectEnabled' = enabled
  /\ popupEvents' = {}
  /\ UNCHANGED <<masterEnabled, liveModeEnabled, ultraHumanEnabled, codingModeEnabled,
                 monitorVars, aiProcVars,
                 pendingAIRequest, bufferVars, sess, nextSession, resultVars, lastCompleted,
                 windowVars, paste, now,
                 explainVars, injectVars, quit, sideVars, pureVars>>

\* settings-master-toggle if turning the master switch on spawned a monitor.
SettingsMasterToggle_respawn(enabled) ==
  /\ enabled # masterEnabled
  /\ masterEnabled' = enabled
  /\ monitorRestartTimer' = IF ~enabled THEN FALSE ELSE monitorRestartTimer
  /\ monitorAlive' = IF enabled THEN monitorAlive + 1 ELSE monitorAlive
  /\ popupEvents' = {}
  /\ UNCHANGED <<autoInjectEnabled, liveModeEnabled, ultraHumanEnabled, codingModeEnabled,
                 keystrokeMonitor, monitorRestartCount, monitorStreak, aiProcVars,
                 pendingAIRequest, bufferVars, sess, nextSession, resultVars, lastCompleted,
                 windowVars, paste, now,
                 explainVars, injectVars, quit, sideVars, pureVars>>

\* ipcMain 'settings-master-toggle'
SettingsMasterToggle(enabled) ==
  /\ enabled # masterEnabled
  /\ masterEnabled' = enabled
  /\ monitorRestartTimer' = IF ~enabled THEN FALSE ELSE monitorRestartTimer
  /\ popupEvents' = {}
  /\ UNCHANGED <<autoInjectEnabled, liveModeEnabled, ultraHumanEnabled, codingModeEnabled,
                 keystrokeMonitor, monitorAlive, monitorRestartCount, monitorStreak, aiProcVars,
                 pendingAIRequest, bufferVars,
                 sess, nextSession, resultVars, lastCompleted, windowVars, paste, now,
                 explainVars, injectVars, quit, sideVars, pureVars>>

\* ipcMain 'settings-live-mode-toggle'
SettingsLiveModeToggle(enabled) ==
  /\ enabled # liveModeEnabled
  /\ liveModeEnabled' = enabled
  /\ popupEvents' = {}
  /\ UNCHANGED <<masterEnabled, autoInjectEnabled, ultraHumanEnabled, codingModeEnabled,
                 monitorVars, aiProcVars,
                 pendingAIRequest, bufferVars, sess, nextSession, resultVars, lastCompleted,
                 windowVars, paste, now,
                 explainVars, injectVars, quit, sideVars, pureVars>>

\* ipcMain 'settings-ultra-human-toggle'
SettingsUltraHumanToggle(enabled) ==
  /\ enabled # ultraHumanEnabled
  /\ ultraHumanEnabled' = enabled
  /\ popupEvents' = {}
  /\ UNCHANGED <<masterEnabled, autoInjectEnabled, liveModeEnabled, codingModeEnabled,
                 monitorVars, aiProcVars,
                 pendingAIRequest, bufferVars, sess, nextSession, resultVars, lastCompleted,
                 windowVars, paste, now,
                 explainVars, injectVars, quit, sideVars, pureVars>>

\* ipcMain 'settings-coding-mode-toggle'
SettingsCodingModeToggle(enabled) ==
  /\ enabled # codingModeEnabled
  /\ codingModeEnabled' = enabled
  /\ popupEvents' = {}
  /\ UNCHANGED <<masterEnabled, autoInjectEnabled, liveModeEnabled, ultraHumanEnabled,
                 monitorVars, aiProcVars, pendingAIRequest, bufferVars, sess, nextSession,
                 resultVars, lastCompleted, windowVars, paste, now,
                 explainVars, injectVars, quit, sideVars, pureVars>>

\* The settings objects the settings window can send: any of the keys may be absent.
SyncMessages(keys) == UNION {[d -> BOOLEAN] : d \in SUBSET keys}

\* `if (s.key !== undefined) variable = s.key`
SyncField(s, key, old) == IF key \in DOMAIN s THEN s[key] ELSE old

\* ipcMain 'settings-init-sync': the saved settings are applied; no timer is touched.
SettingsInitSync(s) ==
  /\ masterEnabled' = SyncField(s, "masterEnabled", masterEnabled)
  /\ autoInjectEnabled' = SyncField(s, "autoInjectEnabled", autoInjectEnabled)
  /\ liveModeEnabled' = SyncField(s, "liveModeEnabled", liveModeEnabled)
  /\ codingModeEnabled' = SyncField(s, "codingModeEnabled", codingModeEnabled)
  /\ ultraHumanEnabled' = SyncField(s, "ultraHumanEnabled", ultraHumanEnabled)
  /\ popupEvents' = {}
  /\ UNCHANGED <<monitorVars, aiProcVars, pendingAIRequest, bufferVars, sess, nextSession,
                 resultVars, lastCompleted, windowVars, paste, now,
                 explainVars, injectVars, quit, sideVars, pureVars>>

\* ================================================================== clock
TimerDue == \E r \in Sessions : sess[r].timer /\ now >= sess[r].sentAt + GEN_TIMEOUT

Tick ==
  /\ now + TickMs <= MaxClock
  /\ ~TimerDue
  /\ now' = now + TickMs
  /\ popupEvents' = {}
  /\ UNCHANGED <<settingsVars, monitorVars, aiProcVars, pendingAIRequest, bufferVars, sess,
                 nextSession, resultVars, lastCompleted, windowVars, paste,
                 explainVars, injectVars, quit, sideVars, pureVars>>

\* ========================================================= text functions
\* The texts normalizeTextForInjection is applied to.
NormalizeTexts == TextsOver({"SP", "LF", "CR", "a"})

\* normalizeTextForInjection is called with inputText.
Normalize ==
  /\ normalized = <<>>
  /\ normalized' = <<normalizeTextForInjection(inputText)>>
  /\ UNCHANGED <<settingsVars, monitorVars, aiProcVars, pendingAIRequest, bufferVars, sess,
                 nextSession, resultVars, lastCompleted, windowVars, paste, popupEvents, now,
                 explainVars, injectVars, quit, sideVars, inputText, escapedText, unescaped, screen,
                 position>>

NormalizeInit ==
  /\ AppReady
  /\ inputText \in NormalizeTexts
  /\ normalized = <<>> /\ escapedText = <<>> /\ unescaped = <<>>
  /\ screen = NoScreen /\ position = <<>>

NormalizeNext == Normalize

NormalizeSpec == NormalizeInit /\ [][NormalizeNext]_vars

\* The orchestrator builds the injector's argument from inputText.
EscapeText ==
  /\ escapedText = <<>>
  /\ escapedText' = <<EscapeArg(inputText)>>
  /\ UNCHANGED <<settingsVars, monitorVars, aiProcVars, pendingAIRequest, bufferVars, sess,
                 nextSession, resultVars, lastCompleted, windowVars, paste, popupEvents, now,
                 explainVars, injectVars, quit, sideVars, inputText, normalized, unescaped, screen,
                 position>>

\* The injector un-escapes its argument before typing.
UnescapeText ==
  /\ escapedText # <<>>
  /\ unescaped = <<>>
  /\ unescaped' = <<unescape_text(escapedText[1])>>
  /\ UNCHANGED <<settingsVars, monitorVars, aiProcVars, pendingAIRequest, bufferVars, sess,
                 nextSession, resultVars, lastCompleted, windowVars, paste, popupEvents, now,
                 explainVars, injectVars, quit, sideVars, inputText, normalized, escapedText, screen,
                 position>>

EscapeInit ==
  /\ AppReady
  /\ inputText \in TextsOver({"BSL", "LF", "CR", "TAB", "n", "r", "t"})
  /\ normalized = <<>> /\ escapedText = <<>> /\ unescaped = <<>>
  /\ screen = NoScreen /\ position = <<>>

EscapeNext == EscapeText \/ UnescapeText

EscapeSpec == EscapeInit /\ [][EscapeNext]_vars

\* ========================================================= popup position
\* The work areas of a display whose taskbar is at the bottom, at the top or hidden.
WorkAreas ==
  {[x |-> 0, y |-> top, width |-> DisplayWidth, height |-> DisplayHeight - top - bottom] :
     top \in {0, TaskbarHeight}, bottom \in {0, TaskbarHeight}}

\* What a show of the popup reads: a pointer on the display, the display's
\* work area and a popup size that fits into the work area.
Screens ==
  {s \in
    {[cursor |-> [x |-> cx, y |-> cy], workArea |-> wa,
      size |-> [width |-> w, height |-> h]] :
       cx \in 0..(DisplayWidth - 1), cy \in 0..(DisplayHeight - 1), wa \in WorkAreas,
       w \in {TaskbarHeight, DisplayWidth},
       h \in {TaskbarHeight, DisplayHeight - TaskbarHeight}} :
    s.size.width <= s.workArea.width /\ s.size.height <= s.workArea.height}

\* showOutputWindowAtCursor up to outputWindow.setPosition
showOutputWindowAtCursor ==
  /\ position = <<>>
  /\ position' = <<PopupPosition(screen)>>
  /\ UNCHANGED <<settingsVars, monitorVars, aiProcVars, pendingAIRequest, bufferVars, sess,
                 nextSession, resultVars, lastCompleted, windowVars, paste, popupEvents, now,
                 explainVars, injectVars, quit, sideVars, inputText, normalized, escapedText, unescaped,
                 screen>>

PopupInit ==
  /\ AppReady
  /\ screen \in Screens
  /\ inputText = <<>> /\ normalized = <<>> /\ escapedText = <<>> /\ unescaped = <<>>
  /\ position = <<>>

PopupNext == showOutputWindowAtCursor

PopupSpec == PopupInit /\ [][PopupNext]_vars

\* The texts the renderer passes over IPC.
IpcTexts == {<<>>, <<"a">>, <<"SP", "a">>}

\* One trigger session, in suggestion mode or in auto-inject mode, and the four
\* paths that hand a text to the injector, each with every way the injector
\* and the clipboard fallback can end.
FallbackNext ==
  \/ AIStarted(TRUE)
  \/ \E enabled \in BOOLEAN : SetAutoInject(enabled)
  \/ nextSession = 1 /\ handleKeystrokeEvent("backtick", FALSE, MaxCharCount)
  \/ \E s \in Sessions : ShowDone(s)
  \/ \E r \in Sessions, text \in IpcTexts \ {<<>>} : handleAIBackendEvent_chunk(r, text, TRUE)
  \/ \E s \in Sessions, outcome \in InjectorOutcomes : InjectorClose(s, outcome)
  \/ \E t \in IpcTexts : SetGeneratedText(t)
  \/ \E p \in Pastes : pasteShortcut(p)
  \/ \E p \in Pastes : pasteShortcut_exec(p)
  \/ \E p \in Pastes, outcome \in InjectorOutcomes \ {"keyTap-throws"} :
       pasteShortcut_callback(p, outcome)
  \/ \E channel \in InjectChannels, t \in IpcTexts : ipcInjectText(channel, t)
  \/ ipcInjectText_spawn
  \/ \E outcome \in InjectorOutcomes : ipcInjectText_end(outcome)
  \/ Escape

FallbackSpec == Init /\ [][FallbackNext]_vars

\* Trigger sessions with the popup, auto-inject, Paste, Escape and focus changes.
Next ==
  \/ \E success \in BOOLEAN : AIStarted(success)
  \/ \E type \in {"backtick"}, bufferEmpty \in BOOLEAN, char_count \in 1..MaxCharCount :
       handleKeystrokeEvent(type, bufferEmpty, char_count)
  \/ \E s \in Sessions : ShowDone(s)
  \/ \E r \in Sessions, text \in ChunkTexts, final \in BOOLEAN :
       handleAIBackendEvent_chunk(r, text, final)
  \/ \E r \in Sessions : handleAIBackendEvent_error(r)
  \/ \E s \in Sessions, outcome \in {"python-inject", "clipboard-throws"} :
       InjectorClose(s, outcome)
  \/ handleKeystrokeEvent_window_change
  \/ Escape
  \/ toggleShortcut
  \/ \E p \in Pastes : pasteShortcut(p)
  \/ \E p \in Pastes : pasteShortcut_exec(p)
  \/ \E p \in Pastes : pasteShortcut_callback(p, "python-inject")
  \/ \E enabled \in BOOLEAN : SetAutoInject(enabled)

Spec == Init /\ [][Next]_vars

\* Generation requests against the clock: the 60 s timers.
TimeoutNext ==
  \/ \E success \in BOOLEAN : AIStarted(success)
  \/ \E type \in MonitorTypes, bufferEmpty \in BOOLEAN, char_count \in 1..MaxCharCount :
       handleKeystrokeEvent(type, bufferEmpty, char_count)
  \/ \E s \in Sessions : ShowDone(s)
  \/ \E r \in Sessions, text \in ChunkTexts, final \in BOOLEAN :
       handleAIBackendEvent_chunk(r, text, final)
  \/ \E r \in Sessions : GenTimeoutFire(r)
  \/ Tick

TimeoutSpec == Init /\ [][TimeoutNext]_vars

\* Every kind of trigger against the master switch.
MasterNext ==
  \/ \E success \in BOOLEAN : AIStarted(success)
  \/ \E enabled \in BOOLEAN : SettingsMasterToggle(enabled)
  \/ \E type \in MonitorTypes, bufferEmpty \in BOOLEAN, char_count \in 1..MaxCharCount :
       handleKeystrokeEvent(type, bufferEmpty, char_count)
  \/ \E clipboardText \in ChunkTexts : handleClipboardTrigger(clipboardText)
  \/ \E buffer \in ChunkTexts, raw_count \in 0..MaxCharCount :
       handleKeystrokeEvent_buffer(buffer, raw_count)
  \/ \E s \in Sessions : BufferTimeoutFire(s)
  \/ handleScreenshotTrigger
  \/ \E s \in Sessions : ShowDone(s)

MasterSpec == Init /\ [][MasterNext]_vars

\* The supervision of the two long-lived children.
SupervisorNext ==
  \/ MonitorStarted
  \/ \E code \in {0, 1} : MonitorClose(code, MaxStreak)
  \/ MonitorRestartFire
  \/ \E success \in BOOLEAN : AIStarted(success)
  \/ \E code \in {0, 1} : AIClose(code, MaxStreak)
  \/ AIRestartFire
  \/ \E enabled \in BOOLEAN : SettingsMasterToggle(enabled)
  \/ \E s \in SyncMessages({"masterEnabled"}) : SettingsInitSync(s)

SupervisorSpec == Init /\ [][SupervisorNext]_vars

\* --------------------------------------------------------------- keystore
\* safeStorage.encryptString(key).toString('base64'): the stored string, from
\* which Buffer.from(stored, 'base64') and decryptString recover the key.
EncryptedEntry(key) == [type |-> "string", base64 |-> [encrypted |-> key]]

\* { plaintext: key }
PlaintextEntry(key) == [type |-> "object", plaintext |-> key]

\* getApiKey(provider) on the file content keys: <<key>>, or <<>> for null.
getApiKey(keys, available, provider) ==
  LET stored == IF provider \in DOMAIN keys THEN keys[provider] ELSE Undefined
  IN  IF stored.type = "undefined" THEN <<>>
      ELSE IF stored.type = "object" /\ stored.plaintext # "" THEN <<stored.plaintext>>
      ELSE IF stored.type = "string" /\ available THEN <<stored.base64.encrypted>>
      ELSE <<>>

\* getAllApiKeys(): the object built from Object.entries(keys)
getAllApiKeys(keys, available) ==
  LET entries == {p \in DOMAIN keys : keys[p].type # "undefined"}
      decoded == {p \in entries :
                    \/ keys[p].type = "object" /\ keys[p].plaintext # ""
                    \/ keys[p].type = "string" /\ available}
  IN  [p \in decoded |-> IF keys[p].type = "object" THEN keys[p].plaintext
                                                    ELSE keys[p].base64.encrypted]

\* getConfiguredProviders(): Object.keys(keys)
getConfiguredProviders(keys) == {p \in DOMAIN keys : keys[p].type # "undefined"}

\* saveApiKey if it wrote a file holding the new entry only.
saveApiKey_freshFile(provider, key) ==
  /\ IF provider = "" \/ key = ""
       THEN UNCHANGED keystore
       ELSE LET entry == IF keystore.encryptionAvailable THEN EncryptedEntry(key)
                                                         ELSE PlaintextEntry(key)
            IN  keystore' = [keystore EXCEPT
                  !.keys = [p \in Providers |-> IF p = provider THEN entry ELSE Undefined],
                  !.saved[provider] = <<[key |-> key,
                                         available |-> keystore.encryptionAvailable]>>]
  /\ popupEvents' = {}
  /\ UNCHANGED <<settingsVars, monitorVars, aiProcVars, pendingAIRequest, bufferVars,
                 sess, nextSession, resultVars, lastCompleted, windowVars, paste, now,
                 explainVars, injectVars, quit, voice, config, pureVars>>

\* saveApiKey(provider, key): `if (!provider || !key) return false`, then the
\* entry of the provider is set in the file content read and the file is written.
saveApiKey(provider, key) ==
  /\ IF provider = "" \/ key = ""
       THEN UNCHANGED keystore
       ELSE LET entry == IF keystore.encryptionAvailable THEN EncryptedEntry(key)
                                                         ELSE PlaintextEntry(key)
            IN  keystore' = [keystore EXCEPT
                  !.keys[provider] = entry,
                  !.saved[provider] = <<[key |-> key,
                                         available |-> keystore.encryptionAvailable]>>]
  /\ popupEvents' = {}
  /\ UNCHANGED <<settingsVars, monitorVars, aiProcVars, pendingAIRequest, bufferVars,
                 sess, nextSession, resultVars, lastCompleted, windowVars, paste, now,
                 explainVars, injectVars, quit, voice, config, pureVars>>

\* removeApiKey(provider): `delete keys[provider]`, then the file is written.
removeApiKey(provider) ==
  /\ keystore' = [keystore EXCEPT !.keys[provider] = Undefined, !.saved[provider] = <<>>]
  /\ popupEvents' = {}
  /\ UNCHANGED <<settingsVars, monitorVars, aiProcVars, pendingAIRequest, bufferVars,
                 sess, nextSession, resultVars, lastCompleted, windowVars, paste, now,
                 explainVars, injectVars, quit, voice, config, pureVars>>

\* safeStorage.isEncryptionAvailable() answers differently from now on (the OS
\* credential facility appears or disappears).
EncryptionAvailability(available) ==
  /\ available # keystore.encryptionAvailable
  /\ keystore' = [keystore EXCEPT !.encryptionAvailable = available]
  /\ popupEvents' = {}
  /\ UNCHANGED <<settingsVars, monitorVars, aiProcVars, pendingAIRequest, bufferVars,
                 sess, nextSession, resultVars, lastCompleted, windowVars, paste, now,
                 explainVars, injectVars, quit, voice, config, pureVars>>

\* The key store: saves, removals and changes of the encryption facility.
KeystoreNext ==
  \/ \E provider \in Providers \cup {""}, key \in KeyArgs : saveApiKey(provider, key)
  \/ \E provider \in Providers : removeApiKey(provider)
  \/ \E available \in BOOLEAN : EncryptionAvailability(available)

KeystoreSpec == Init /\ [][KeystoreNext]_vars

\* ----------------------------------------------------------------- config
\* A value is a sequence of pieces: "your-" is the placeholder substring, "Q" a
\* quote, "SP" white space, "#" the comment sign, any other piece ordinary
\* characters. A variable is <<>> when it is not set and <<value>> when it is.
\*
\* loadCachedConfig: cachedEnv = { ...process.env }; then, for .env,
\* config.example.env and config.env in this order, if the file exists, each
\* name's first `NAME\s*=\s*([^\s#\n]+)` is stripped of one quote at either end
\* and assigned if it is not empty and does not include 'your-'.
loadCachedConfig(processEnv, files) ==
  /\ config.cachedEnv = <<>>
  /\ LET Capture(raw) ==
           LET stop == {i \in 1..Len(raw) : raw[i] \in {"SP", "#"}}
               n == IF stop = {} THEN Len(raw)
                    ELSE (CHOOSE i \in stop : \A j \in stop : i <= j) - 1
           IN  SubSeq(raw, 1, n)
         StripQuotes(v) ==
           LET a == IF v # <<>> /\ v[1] = "Q" THEN Tail(v) ELSE v
           IN  IF a # <<>> /\ a[Len(a)] = "Q" THEN SubSeq(a, 1, Len(a) - 1) ELSE a
         Includes(v, piece) == \E i \in 1..Len(v) : v[i] = piece
         Read(env, file) ==
           IF file = <<>> THEN env
           ELSE [name \in ApiKeyNames |->
                   LET match == Capture(file[1][name])
                       apiKey == StripQuotes(match)
                   IN  IF match # <<>> /\ apiKey # <<>> /\ ~Includes(apiKey, "your-")
                         THEN <<apiKey>> ELSE env[name]]
         afterEnv == Read(processEnv, files[1])
         afterExample == Read(afterEnv, files[2])
     IN  config' = [processEnv |-> processEnv, files |-> files,
                    cachedEnv |-> <<Read(afterExample, files[3])>>]
  /\ popupEvents' = {}
  /\ UNCHANGED <<settingsVars, monitorVars, aiProcVars, pendingAIRequest, bufferVars,
                 sess, nextSession, resultVars, lastCompleted, windowVars, paste, now,
                 explainVars, injectVars, quit, voice, keystore, pureVars>>

\* The application starts with some process environment and some config files:
\* each variable unset, empty, a placeholder or a key; each file missing or
\* holding one assignment.
ConfigNext ==
  LET EnvValues == {<<>>, << <<>> >>, << <<"your-", "k">> >>, << <<"k">> >>}
      RawValues == {<<"f">>, <<"Q", "your-", "f", "Q">>, <<"Q", "f", "Q", "SP", "#">>}
      Contents == {[name \in ApiKeyNames |-> IF name = n THEN raw ELSE <<>>] :
                     n \in ApiKeyNames, raw \in RawValues}
      Files == {<<>>} \cup {<<c>> : c \in Contents}
  IN  /\ config.cachedEnv = <<>>
      /\ \E processEnv \in [ApiKeyNames -> EnvValues], files \in [1..3 -> Files] :
           loadCachedConfig(processEnv, files)

ConfigSpec == Init /\ [][ConfigNext]_vars

\* ------------------------------------------------------------------ voice
\* The recorder processes that run: spawned, not signalled, not exited.
Recording == {r \in Recorders : voice.proc[r] = "running"}

\* voiceShortcut (CommandOrControl+Shift+V): `if (isVoiceRecording) return;`
\* then startVoiceRecording, which spawns a recorder and keeps it in voiceProcess.
startVoiceRecording ==
  /\ \E r \in Recorders :
       /\ voice.proc[r] = "none"
       /\ \A q \in Recorders : q < r => voice.proc[q] # "none"
       /\ IF voice.isVoiceRecording
            THEN UNCHANGED <<voice, isWindowVisible>>
            ELSE /\ voice' = [voice EXCEPT !.isVoiceRecording = TRUE, !.voiceProcess = r,
                                           !.proc[r] = "running"]
                 /\ isWindowVisible' = TRUE
  /\ popupEvents' = {}
  /\ UNCHANGED <<settingsVars, monitorVars, aiProcVars, pendingAIRequest, bufferVars,
                 sess, nextSession, resultVars, lastCompleted, outputVisible, paste, now,
                 explainVars, injectVars, quit, keystore, config, pureVars>>

\* uIOhook keyup of V (`e.keycode === 47 && isVoiceRecording`), stopVoiceRecording:
\* the process in voiceProcess, if any, is signalled (taskkill / SIGTERM) and
\* transcribeSavedRecording is called, after 300 ms or at once.
stopVoiceRecording ==
  /\ IF ~voice.isVoiceRecording
       THEN UNCHANGED voice
       ELSE voice' = [voice EXCEPT
                        !.isVoiceRecording = FALSE,
                        !.proc = [r \in Recorders |->
                                    IF r = voice.voiceProcess /\ @[r] = "running"
                                      THEN "killed" ELSE @[r]],
                        !.transcriptions = @ + 1]
  /\ popupEvents' = {}
  /\ UNCHANGED <<settingsVars, monitorVars, aiProcVars, pendingAIRequest, bufferVars,
                 sess, nextSession, resultVars, lastCompleted, windowVars, paste, now,
                 explainVars, injectVars, quit, keystore, config, pureVars>>

\* voiceProcess.on('close') of recorder r, which exited by itself or after the
\* signal: `voiceProcess = null`.
VoiceClose(r) ==
  /\ voice.proc[r] \in {"running", "killed"}
  /\ voice' = [voice EXCEPT !.proc[r] = "exited", !.voiceProcess = 0]
  /\ popupEvents' = {}
  /\ UNCHANGED <<settingsVars, monitorVars, aiProcVars, pendingAIRequest, bufferVars,
                 sess, nextSession, resultVars, lastCompleted, windowVars, paste, now,
                 explainVars, injectVars, quit, keystore, config, pureVars>>

\* voiceProcess.on('error') of recorder r, whose spawn failed:
\* `isVoiceRecording = false; voiceProcess = null`.
VoiceError(r) ==
  /\ voice.proc[r] = "running"
  /\ voice' = [voice EXCEPT !.proc[r] = "exited", !.voiceProcess = 0,
                            !.isVoiceRecording = FALSE]
  /\ popupEvents' = {}
  /\ UNCHANGED <<settingsVars, monitorVars, aiProcVars, pendingAIRequest, bufferVars,
                 sess, nextSession, resultVars, lastCompleted, windowVars, paste, now,
                 explainVars, injectVars, quit, keystore, config, pureVars>>

\* Hold-to-talk: presses and releases of the voice key, recorder exits.
VoiceNext ==
  \/ startVoiceRecording
  \/ stopVoiceRecording
  \/ \E r \in Recorders : VoiceClose(r)
  \/ \E r \in Recorders : VoiceError(r)
  \/ toggleShortcut

VoiceSpec == Init /\ [][VoiceNext]_vars

\* The two children while the application quits. A killed child exits with a
\* null code, which is not 0.
QuitNext ==
  \/ MonitorStarted
  \/ \E code \in {0, 1} :
       /\ "monitor" \in quit.killed => code # 0
       /\ MonitorClose(code, MaxStreak)
  \/ MonitorRestartFire
  \/ \E success \in BOOLEAN : AIStarted(success)
  \/ \E code \in {0, 1} :
       /\ "ai" \in quit.killed => code # 0
       /\ AIClose(code, MaxStreak)
  \/ AIRestartFire
  \/ \E enabled \in BOOLEAN : SettingsMasterToggle(enabled)
  \/ willQuit
  \/ \E c \in Children : KillFire(c)

QuitSpec == Init /\ [][QuitNext]_vars

\* Generation requests against a worker that exits and is restarted.
WorkerNext ==
  \/ \E success \in BOOLEAN : AIStarted(success)
  \/ \E code \in {0, 1} : AIClose(code, MaxStreak)
  \/ AIRestartFire
  \/ \E type \in {"backtick"}, bufferEmpty \in BOOLEAN, char_count \in 1..MaxCharCount :
       handleKeystrokeEvent(type, bufferEmpty, char_count)
  \/ \E s \in Sessions : ShowDone(s)
  \/ \E r \in Sessions, text \in ChunkTexts, final \in BOOLEAN :
       handleAIBackendEvent_chunk(r, text, final)

WorkerSpec == Init /\ [][WorkerNext]_vars

\* Requests against a worker that starts, reports, exits and is restarted;
\* the worker answers nothing.
ReadyNext ==
  \/ \E success \in BOOLEAN : AIStarted(success)
  \/ \E code \in {0, 1} : AIClose(code, MaxStreak)
  \/ AIRestartFire
  \/ \E type \in {"backtick"}, bufferEmpty \in BOOLEAN, char_count \in 1..MaxCharCount :
       handleKeystrokeEvent(type, bufferEmpty, char_count)
  \/ \E s \in Sessions : ShowDone(s)

ReadySpec == Init /\ [][ReadyNext]_vars

\* Clipboard and keystroke triggers in coding mode: the clipboard request, its
\* explanation request and the requests of other triggers share the worker.
ExplainNext ==
  \/ \E success \in BOOLEAN : AIStarted(success)
  \/ \E enabled \in BOOLEAN : SettingsCodingModeToggle(enabled)
  \/ \E clipboardText \in ChunkTexts : handleClipboardTrigger(clipboardText)
  \/ \E buffer \in ChunkTexts, raw_count \in 1..MaxCharCount :
       handleKeystrokeEvent_buffer(buffer, raw_count)
  \/ \E type \in {"backtick"}, bufferEmpty \in BOOLEAN, char_count \in 1..MaxCharCount :
       handleKeystrokeEvent(type, bufferEmpty, char_count)
  \/ \E s \in Sessions : ShowDone(s)
  \/ \E r \in Requests, text \in ChunkTexts, final \in BOOLEAN :
       handleAIBackendEvent_chunk(r, text, final)

ExplainSpec == Init /\ [][ExplainNext]_vars

\* The buffers the monitor reports with a trigger.
BufferTexts == {<<>>, <<"SP">>, <<"LF", "TAB">>, <<"a">>, <<"SP", "a">>}

\* Backtick and live triggers with live mode switched on and off.
LiveNext ==
  \/ AIStarted(TRUE)
  \/ \E enabled \in BOOLEAN : SettingsLiveModeToggle(enabled)
  \/ \E type \in {"backtick", "live"}, buffer \in BufferTexts :
       handleKeystrokeEvent(type, BufferBlank(buffer), MaxCharCount)
  \/ \E s \in Sessions : ShowDone(s)
  \/ \E r \in Sessions, text \in ChunkTexts \ {<<>>} :
       handleAIBackendEvent_chunk(r, text, TRUE)

LiveSpec == Init /\ [][LiveNext]_vars

\* Every handler that assigns pendingBackspaceCount or triggerMode: the
\* monitor's triggers, the Clipboard, Screenshot and overlay hotkeys, focus
\* changes, Escape, and the end of an auto-injection and of a Paste.  At most
\* one monitor trigger and two sessions in all.
ModeNext ==
  \/ AIStarted(TRUE)
  \/ \E enabled \in BOOLEAN : SetAutoInject(enabled)
  \/ \E type \in MonitorTypes :
       nextSession = 1 /\ handleKeystrokeEvent(type, FALSE, MaxCharCount)
  \/ nextSession <= 2 /\ handleClipboardTrigger(<<"a">>)
  \/ \E buffer \in ChunkTexts : handleKeystrokeEvent_buffer(buffer, MaxCharCount)
  \/ handleScreenshotTrigger
  \/ toggleShortcut
  \/ handleKeystrokeEvent_window_change
  \/ Escape
  \/ \E s \in Sessions : ShowDone(s)
  \/ \E r \in Sessions : handleAIBackendEvent_chunk(r, <<"a">>, TRUE)
  \/ \E s \in Sessions : InjectorClose(s, "python-inject")
  \/ \E p \in Pastes : pasteShortcut(p)
  \/ \E p \in Pastes : pasteShortcut_exec(p)
  \/ \E p \in Pastes : pasteShortcut_callback(p, "python-inject")

ModeSpec == Init /\ [][ModeNext]_vars

\* Every event the worker writes, for two requests that can overlap; only the
\* worker's last chunk can be empty.
StreamNext ==
  \/ AIStarted(TRUE)
  \/ \E enabled \in BOOLEAN : SetAutoInject(enabled)
  \/ nextSession <= 2 /\ handleKeystrokeEvent("backtick", FALSE, MaxCharCount)
  \/ \E s \in Sessions : ShowDone(s)
  \/ \E r \in Sessions, final \in BOOLEAN :
       \E text \in IF final THEN ChunkTexts ELSE ChunkTexts \ {<<>>} :
         handleAIBackendEvent_chunk(r, text, final)
  \/ \E r \in Sessions : handleAIBackendEvent_complete(r, <<"a">>)
  \/ \E r \in Sessions : handleAIBackendEvent_error(r)

StreamSpec == Init /\ [][StreamNext]_vars

\* The overlay prompt bar: it is toggled, and while it is on screen its
\* renderer stores a generated text (handleGenerate in suggestion mode); the
\* monitor's triggers, focus changes, Escape and the Paste hotkey go on.
OverlayNext ==
  \/ AIStarted(TRUE)
  \/ toggleShortcut
  \/ isWindowVisible /\ SetGeneratedText(<<"a">>)
  \/ \E char_count \in 1..MaxCharCount : handleKeystrokeEvent("backtick", FALSE, char_count)
  \/ \E s \in Sessions : ShowDone(s)
  \/ \E r \in Sessions : handleAIBackendEvent_chunk(r, <<"a">>, TRUE)
  \/ handleKeystrokeEvent_window_change
  \/ Escape
  \/ \E p \in Pastes : pasteShortcut(p)
  \/ \E p \in Pastes : pasteShortcut_exec(p)
  \/ \E p \in Pastes : pasteShortcut_callback(p, "python-inject")

OverlaySpec == Init /\ [][OverlayNext]_vars

\* The texts clipboard.readText() returns.
ClipboardTexts == {<<>>, <<"SP">>, <<"a">>, <<"a", "SP">>}

\* One Clipboard-hotkey session in suggestion mode: the hotkey, the monitor's
\* answer to get_buffer, the popup and the request.
ClipNext ==
  \/ AIStarted(TRUE)
  \/ \E clipboardText \in ClipboardTexts :
       nextSession = 1 /\ handleClipboardTrigger(clipboardText)
  \/ \E buffer \in BufferTexts, raw_count \in 1..MaxCharCount :
       handleKeystrokeEvent_buffer(buffer, raw_count)
  \/ \E s \in Sessions : ShowDone(s)
  \/ \E r \in Sessions, text \in ChunkTexts \ {<<>>} :
       handleAIBackendEvent_chunk(r, text, TRUE)

ClipSpec == Init /\ [][ClipNext]_vars

\* One Clipboard-hotkey session in coding mode with its explanation request,
\* the main window toggle, and Escape at any moment.
CancelNext ==
  \/ AIStarted(TRUE)
  \/ SettingsCodingModeToggle(TRUE)
  \/ \E clipboardText \in ChunkTexts \ {<<>>} :
       nextSession = 1 /\ handleClipboardTrigger(clipboardText)
  \/ \E buffer \in ChunkTexts : handleKeystrokeEvent_buffer(buffer, MaxCharCount)
  \/ \E s \in Sessions : ShowDone(s)
  \/ \E r \in Requests, text \in ChunkTexts \ {<<>>}, final \in BOOLEAN :
       handleAIBackendEvent_chunk(r, text, final)
  \/ toggleShortcut
  \/ Escape

CancelSpec == Init /\ [][CancelNext]_vars

\* Trigger sessions in suggestion mode and in auto-inject mode.  The monitor
\* reports the largest character count, and only the worker's last chunk can
\* be empty.  The injector types the text or fails; the clipboard fallback of a
\* failed run fails too (FallbackSpec has the fallback that succeeds).
AutoInjectNext ==
  \/ \E success \in BOOLEAN : AIStarted(success)
  \/ \E enabled \in BOOLEAN : SetAutoInject(enabled)
  \/ \E type \in {"backtick"}, bufferEmpty \in BOOLEAN, char_count \in {MaxCharCount} :
       handleKeystrokeEvent(type, bufferEmpty, char_count)
  \/ \E s \in Sessions : ShowDone(s)
  \/ \E r \in Sessions, final \in BOOLEAN :
       \E text \in IF final THEN ChunkTexts ELSE ChunkTexts \ {<<>>} :
         handleAIBackendEvent_chunk(r, text, final)
  \/ \E s \in Sessions, outcome \in {"python-inject", "keyTap-throws", "clipboard-throws"} :
       InjectorClose(s, outcome)

AutoInjectSpec == Init /\ [][AutoInjectNext]_vars

TypeOK ==
  /\ pendingAIRequest.owner \in {0} \cup Requests
  /\ nextSession \in 1..(MaxSessions + 1)
  /\ pendingBackspaceCount \in 0..MaxCharCount
  /\ now \in 0..MaxClock

\* ============================================================= properties
\* The injector is spawned for the result of session s by auto-inject.
AutoInjectStarts(s) == sess[s].pc # "injecting" /\ sess'[s].pc = "injecting"

\* The Paste hotkey hands its command to the injector.
PasteInjectStarts(p) == paste[p].pc = "delay" /\ paste'[p].pc = "exec"

\* A generate command for session s is written to the worker.
GenerateSent(s) == sess[s].wst = "none" /\ sess'[s].wst = "queued"

\* A trigger is accepted (a session starts).
TriggerAccepted == nextSession' # nextSession

\* The 60 s timer of request r fires.
TimerFires(r) == sess[r].timer /\ ~sess'[r].timer

\* The handler of session s calls generateTextStreaming.
RequestMade(s) == sess[s].st = "none" /\ sess'[s].st # "none"

\* An AI worker process exits (its close event is handled).
WorkerExits == aiAlive' < aiAlive

\* The worker writes the final chunk of its response to the request of session s.
FinalChunkFor(s) ==
  /\ sess[s].wst = "queued" /\ sess'[s].wst = "done"
  /\ Len(sess'[s].produced) > Len(sess[s].produced)

\* The number of injector (or typer) processes that are running.
InjectorsRunning ==
  Cardinality({s \in Sessions : sess[s].pc = "injecting"})
    + Cardinality({p \in Pastes : paste[p].pc \in {"exec", "ultraRun"}})

\* An injector (or typer) run started by auto-inject or by the Paste hotkey is over.
InjectionEnds ==
  \/ \E s \in Sessions : sess[s].pc = "injecting" /\ sess'[s].pc # "injecting"
  \/ \E p \in Pastes : paste[p].pc \in {"exec", "ultraRun"} /\ paste'[p].pc = "idle"

\* A session whose handler, generation request or injector is in progress.
Live(rec) == rec.pc \in {"buffer", "showing", "waiting", "injecting"} \/ rec.wst = "queued"

\* The request of session s is pending, it was made with autoInject, and no other
\* session is in progress.
AutoSession(s) ==
  /\ pendingAIRequest.owner = s
  /\ pendingAIRequest.autoInject
  /\ sess[s].st = "pending"
  /\ \A t \in Sessions \ {s} : ~Live(sess[t])

\* The text of a sequence of chunk texts.
RECURSIVE Join(_)
Join(texts) == IF texts = <<>> THEN <<>> ELSE Head(texts) \o Join(Tail(texts))

\* No generation request and no injection is in progress.
Idle ==
  /\ pendingAIRequest.owner = 0
  /\ \A s \in Sessions : sess[s].pc \notin {"showing", "waiting", "injecting"}
  /\ \A p \in Pastes : paste[p].pc = "idle"

\* C1: every injection of a session's result (auto-inject on the final chunk, or
\* the Paste hotkey afterwards) is handed the char_count captured when that
\* session's trigger was accepted as its number of backspaces.
C1_BackspacesAreSessionCharCount ==
  [][/\ \A s \in Sessions :
          AutoInjectStarts(s) => pendingBackspaceCount = sess[s].char_count
     /\ \A p \in Pastes :
          (PasteInjectStarts(p) /\ lastSetBy # 0)
            => pendingBackspaceCount = sess[lastSetBy].char_count]_vars

\* C2: in Idle, lastGeneratedText is empty or it is the result of the most
\* recently completed generation, and that generation was not cancelled (an
\* injected or cancelled result has been cleared).
C2_IdleLastGeneratedText ==
  Idle => \/ lastGeneratedText = <<>>
          \/ /\ lastSetBy # 0
             /\ lastSetBy = lastCompleted
             /\ ~sess[lastSetBy].cancelled

\* C3: once Escape was pressed while the request of session s was in flight, no
\* chunk is accumulated for s any more, s never starts an injection and s never
\* sets lastGeneratedText.
C3_EscapeCancelsSession ==
  [][\A s \in Sessions :
       sess[s].cancelled =>
         /\ (pendingAIRequest.owner = s /\ pendingAIRequest'.owner = s)
              => pendingAIRequest'.chunks = pendingAIRequest.chunks
         /\ ~AutoInjectStarts(s)
         /\ (lastSetBy' = s => lastSetBy = s)
         /\ sess'[s].st # "resolved"]_vars

\* C4: the chunks accumulated for the pending request are exactly the chunks
\* the worker produced for that request, in order, none of another request
\* mixed in and none lost.
C4_ChunksAreOwn ==
  pendingAIRequest.owner # 0 =>
    /\ \A i \in 1..Len(pendingAIRequest.chunks) :
         pendingAIRequest.chunks[i].req = pendingAIRequest.owner
    /\ [i \in 1..Len(pendingAIRequest.chunks) |-> pendingAIRequest.chunks[i].text]
         = sess[pendingAIRequest.owner].produced

\* C5: while a generation request is in flight no further trigger is accepted:
\* no second generate command is written and pendingBackspaceCount is not
\* overwritten by a trigger.
C5_TriggersFrozenInFlight ==
  [][InFlight(sess) # {} =>
       /\ ~TriggerAccepted
       /\ \A s \in Sessions : ~GenerateSent(s)]_vars

\* C6: a 60 s timer only ever ends the request it was started for, so a pending
\* request is never cleared sooner than 60 s after it was sent.
C6_TimerEndsOwnRequest ==
  [][\A r \in Sessions :
       (TimerFires(r) /\ pendingAIRequest.owner # 0) =>
         /\ pendingAIRequest.owner = r
         /\ now >= sess[pendingAIRequest.owner].sentAt + GEN_TIMEOUT]_vars

\* C7: when the timer of a request that has not been settled fires, the request
\* is resolved with the accumulated text if that is non-empty and rejected
\* otherwise, and the pending request is cleared.
C7_TimeoutSettlesRequest ==
  [][\A r \in Sessions :
       (TimerFires(r) /\ sess[r].st = "pending") =>
         /\ pendingAIRequest'.owner = 0
         /\ sess'[r].st \in {"resolved", "rejected"}
         /\ pendingAIRequest.owner = r =>
              sess'[r].st = IF Concat(pendingAIRequest.chunks) # <<>>
                              THEN "resolved" ELSE "rejected"]_vars

\* C8: while master_enabled is false no trigger is accepted, no generate
\* command is written and pendingBackspaceCount, triggerMode and
\* lastGeneratedText keep their values.
C8_MasterOffBlocksTriggers ==
  [][(~masterEnabled /\ ~masterEnabled') =>
       /\ ~TriggerAccepted
       /\ \A s \in Sessions : ~GenerateSent(s)
       /\ UNCHANGED <<pendingBackspaceCount, triggerMode, lastGeneratedText>>]_vars

\* C9: the keystroke monitor is restarted at most MONITOR_MAX_RESTARTS times in
\* a row (without reporting started in between).
C9_MonitorRestartsBounded == monitorStreak <= MONITOR_MAX_RESTARTS

\* C10: the AI worker is restarted at most 5 times in a row (without a
\* successful started report in between).
C10_WorkerRestartsBounded == aiStreak <= 5

\* C11: at every moment at most one keystroke-monitor process and at most one
\* AI-worker process are alive, whatever the child exits, restart timers and
\* master on/off changes.
C11_OneChildOfEachKind == monitorAlive <= 1 /\ aiAlive <= 1

\* Both children run again after each of them was restarted by its timer, and
\* the master switch has been turned off in between.
C11_Witness ==
  /\ monitorAlive = 1 /\ monitorStreak > 0
  /\ aiAlive = 1 /\ aiStreak > 0
  /\ ~masterEnabled

\* C12: while master_enabled is false no restart timer is pending and no child
\* process (keystroke monitor or AI worker) is started.
C12_MasterOffStopsRestarts ==
  /\ [](~masterEnabled => (~monitorRestartTimer /\ ~aiRestartTimer))
  /\ [][(~masterEnabled /\ ~masterEnabled')
         => (monitorAlive' <= monitorAlive /\ aiAlive' <= aiAlive)]_vars

\* C13: a generate command is written to the AI worker only while exactly one
\* worker process is alive and that process has reported started with
\* success=true; a generation requested in any other state is rejected at once
\* and no command is written.  A process has exited once its close event has
\* been handled.
C13_GenerateOnlyWhenReady ==
  [][\A s \in Sessions :
       /\ GenerateSent(s) => (aiAlive = 1 /\ aiReportedOK)
       /\ (RequestMade(s) /\ ~aiReportedOK)
            => (sess'[s].st = "rejected" /\ sess'[s].wst = "none")]_vars

\* The request of session 1 was written to a ready worker, the worker exited,
\* and the request of session 2 was rejected while no worker was running.
C13_Witness ==
  /\ sess[1].wst = "lost"
  /\ sess[2].st = "rejected" /\ sess[2].wst = "none"
  /\ aiAlive = 0

\* C14: when the AI worker exits while the pending request has received at
\* least one chunk and no final chunk, the request is resolved (with the text
\* accumulated so far) and, unless it was made with autoInject, stream-end is
\* sent to the popup.
C14_WorkerExitEndsStream ==
  [][\A o \in Sessions :
       (WorkerExits /\ pendingAIRequest.owner = o /\ pendingAIRequest.chunks # <<>>)
         => /\ pendingAIRequest'.owner = 0
            /\ sess'[o].st = "resolved"
            /\ ~pendingAIRequest.autoInject => "stream-end" \in popupEvents']_vars

\* C15: at most one injector process is running at any time.
C15_OneInjectionInFlight == InjectorsRunning <= 1

\* C16: when an injection started by auto-inject or by the Paste hotkey is over,
\* lastGeneratedText is empty, pendingBackspaceCount is 0 and triggerMode is null.
C16_InjectionEndsInReset ==
  [][InjectionEnds =>
       /\ lastGeneratedText' = <<>>
       /\ pendingBackspaceCount' = 0
       /\ triggerMode' = "null"]_vars

C18_FocusChangeEndsPresenting ==
  [][(Presenting /\ handleKeystrokeEvent_window_change) => lastGeneratedText' = <<>>]_vars

\* C20: a session whose request was made without auto-inject (its trigger was
\* accepted while auto_inject was off) is never auto-injected, whatever
\* set-auto-inject does before the final chunk.
C20_AutoInjectFixedAtAcceptance ==
  [][\A s \in Sessions :
       (AutoInjectStarts(s) /\ pendingAIRequest.owner = s) => pendingAIRequest.autoInject]_vars

\* A chunk of the response to request r is read from the worker.
ChunkOf(r) == Len(sess'[r].produced) > Len(sess[r].produced)

\* The chunks the orchestrator has appended to the pending request's text
\* after this step's chunk, before the slot is emptied.
ExplanationChunkInSlot ==
  \/ \E i \in DOMAIN pendingAIRequest.chunks :
        pendingAIRequest.chunks[i].req \notin Sessions
  \/ \E s \in Sessions : pendingAIRequest.owner # 0 /\ ChunkOf(Explanation(s))

\* C19: the response to a coding-mode explanation request goes to the
\* explanation window only: no chunk of it is sent to the main popup as a
\* stream event, and no text stored in lastGeneratedText (the only text the
\* injector is ever given) contains a chunk of it.
C19_ExplanationStaysOutOfPopup ==
  [][/\ \A s \in Sessions : ChunkOf(Explanation(s)) => popupEvents' = {}
     /\ (lastGeneratedText' # lastGeneratedText /\ lastGeneratedText' # <<>>)
          => ~ExplanationChunkInSlot]_vars

\* The lines of a text as normalizeTextForInjection's output is read: split at LF.
RECURSIVE LinesOf(_, _)
LinesOf(t, cur) ==
  IF t = <<>> THEN <<cur>>
  ELSE IF Head(t) = "LF" THEN <<cur>> \o LinesOf(Tail(t), <<>>)
  ELSE LinesOf(Tail(t), Append(cur, Head(t)))

\* No line of t begins with whitespace, and t neither begins nor ends with a
\* blank line.
CleanText(t) ==
  LET lines == LinesOf(t, <<>>)
  IN /\ \A i \in DOMAIN lines : lines[i] = <<>> \/ lines[i][1] \notin Whitespace
     /\ t # <<>> => (lines[1] # <<>> /\ lines[Len(lines)] # <<>>)

\* C24: for every input, the output of normalizeTextForInjection has no line
\* that begins with whitespace and no leading or trailing blank line, and
\* normalizing the output again leaves it as it is.
C24_NormalizeCleanAndIdempotent ==
  normalized # <<>> =>
    /\ CleanText(normalized[1])
    /\ normalizeTextForInjection(normalized[1]) = normalized[1]

\* C25: for every text over backslash, LF, CR, TAB, n, r, t, un-escaping the
\* orchestrator's escaped argument in one pass from left to right gives the
\* original text back.
C25_UnescapeInvertsEscape == unescaped # <<>> => unescaped[1] = inputText

\* A text with a backslash before an n and a real newline has made the round trip.
C25_Witness ==
  /\ inputText = <<"BSL", "n", "LF">>
  /\ escapedText = <<<<"BSL", "BSL", "n", "BSL", "n">>>>
  /\ unescaped = <<inputText>>

\* C26: for every pointer position on the display and every popup no larger
\* than the work area, the rectangle the popup is placed at lies inside the
\* work area.
C26_PopupInsideWorkArea ==
  position # <<>> =>
    LET pos == position[1]
        wa == screen.workArea
    IN /\ wa.x <= pos.x /\ pos.x + screen.size.width <= wa.x + wa.width
       /\ wa.y <= pos.y /\ pos.y + screen.size.height <= wa.y + wa.height


\* C27: pressing the Paste hotkey while lastGeneratedText is empty does nothing:
\* no injector is started (no Paste callback leaves "idle"), the clipboard is
\* not written, no window is hidden, and pendingBackspaceCount and triggerMode
\* keep their values.
C27_PasteWithoutSuggestion ==
  [][\A p \in Pastes :
       (lastGeneratedText = <<>> /\ pasteShortcut(p)) =>
         UNCHANGED <<paste, clipboard, outputVisible, isWindowVisible, explanationVisible,
                     pendingBackspaceCount, triggerMode>>]_vars

\* The hotkey can be pressed with no suggestion while the popup is on screen
\* and backspaces are pending.
C27_Witness ==
  /\ lastGeneratedText = <<>>
  /\ outputVisible
  /\ pendingBackspaceCount > 0
  /\ triggerMode # "null"
  /\ \A p \in Pastes : paste[p].pc = "idle"

\* C28: right after Escape has been handled, whatever the state before,
\* lastGeneratedText and lastGeneratedExplanation are empty,
\* pendingBackspaceCount is 0, triggerMode is null, and the popup and the
\* explanation window are hidden.
C28_EscapeClearsEverything ==
  [][Escape =>
       /\ lastGeneratedText' = <<>>
       /\ lastGeneratedExplanation' = <<>>
       /\ pendingBackspaceCount' = 0
       /\ triggerMode' = "null"
       /\ ~outputVisible'
       /\ ~explanationVisible']_vars

\* Escape was handled while an explanation request was waiting, i.e. with
\* the explanation window and the popup on screen and a result stored.
C28_Witness ==
  /\ \E s \in Sessions : sess[Explanation(s)].cancelled
  /\ lastGeneratedText = <<>>
  /\ lastGeneratedExplanation = <<>>
  /\ pendingBackspaceCount = 0
  /\ triggerMode = "null"
  /\ ~outputVisible
  /\ ~explanationVisible

\* C29: a live trigger while live mode is disabled, and any trigger whose
\* buffer is empty or only whitespace, sends no generation request (no request
\* takes the slot, no session is started), leaves pendingBackspaceCount,
\* triggerMode and lastGeneratedText unchanged and does not show the popup.
C29_IgnoredTriggerChangesNothing ==
  [][\A type \in {"backtick", "live"}, buffer \in BufferTexts :
       (/\ handleKeystrokeEvent(type, BufferBlank(buffer), MaxCharCount)
        /\ \/ type = "live" /\ ~liveModeEnabled
           \/ \A i \in 1..Len(buffer) : buffer[i] \in Whitespace)
       => /\ UNCHANGED <<pendingAIRequest, sess, nextSession>>
          /\ UNCHANGED <<pendingBackspaceCount, triggerMode, lastGeneratedText>>
          /\ UNCHANGED outputVisible
          /\ popupEvents' = {}]_vars

\* A trigger can arrive while live mode is off, the worker is ready and an
\* earlier session has left a result, a backspace count and the popup.
C29_Witness ==
  /\ ~liveModeEnabled /\ masterEnabled
  /\ keystrokeMonitor = "running" /\ aiBackendReady
  /\ nextSession \in 2..MaxSessions
  /\ pendingAIRequest.owner = 0
  /\ lastGeneratedText # <<>>
  /\ pendingBackspaceCount > 0
  /\ triggerMode = "live"

\* C21: when an injection fails and the clipboard fallback fails too, the
\* result stays in memory: lastGeneratedText holds after the failed attempt the
\* text it held before it.
C21_ResultKeptAfterFailedFallback ==
  [][(\/ \E s \in Sessions : InjectorClose(s, "clipboard-throws")
      \/ \E p \in Pastes : pasteShortcut_callback(p, "clipboard-throws")
      \/ ipcInjectText_end("clipboard-throws"))
     => lastGeneratedText' = lastGeneratedText]_vars

\* C22: on the delete-and-type paths (autoInjectWithBackspace, Paste hotkey,
\* auto-inject-text, inject-text) the clipboard is written only when the
\* injector fails, and then with the text of that injection; an injection that
\* succeeds, and every other step of these paths, leaves the clipboard as it is.
C22_ClipboardOnlyOnFailure ==
  [][/\ (\/ \E s \in Sessions : InjectorClose(s, "python-inject")
         \/ \E p \in Pastes : pasteShortcut_callback(p, "python-inject")
         \/ ipcInjectText_end("python-inject"))
        => clipboard' = clipboard
     /\ clipboard' # clipboard =>
          \E outcome \in {"clipboard-fallback", "keyTap-throws"} :
            \/ \E s \in Sessions : InjectorClose(s, outcome) /\ clipboard' = sess[s].arg
            \/ \E p \in Pastes :
                 pasteShortcut_callback(p, outcome) /\ clipboard' = lastGeneratedText
            \/ ipcInjectText_end(outcome) /\ clipboard' = ipc.arg]_vars

\* The fallback of a failed Paste injection has written the clipboard (only
\* Paste hands over a text with its leading space), the auto-injection of
\* session 1's result "a" has ended, and every injection path is at rest.
C22_Witness ==
  /\ clipboard = <<"SP", "a">>
  /\ sess[1].pc = "done" /\ sess[1].produced = <<<<"a">>>>
  /\ autoInjectEnabled
  /\ lastGeneratedText = <<>>
  /\ ipc.pc = "idle"
  /\ \A p \in Pastes : paste[p].pc = "idle"

\* C23: on every path that hands a generated text to the injector (auto-inject
\* of a trigger result, Paste hotkey, auto-inject-text, inject-text) the text
\* the injector gets is the text passed through normalizeTextForInjection once.
C23_InjectedTextNormalizedOnce ==
  [][/\ \A s \in Sessions :
          (sess[s].pc # "injecting" /\ sess'[s].pc = "injecting")
            => sess'[s].arg = normalizeTextForInjection(lastGeneratedText')
     /\ \A p \in Pastes :
          pasteShortcut_exec(p)
            => paste'[p].arg = normalizeTextForInjection(lastGeneratedText)
     /\ \A channel \in InjectChannels, tx \in IpcTexts :
          ipcInjectText(channel, tx) => ipc'.arg = normalizeTextForInjection(tx)]_vars

\* C30: when the request of a Clipboard-hotkey session is sent, if the monitor's
\* buffer is non-empty the request has mode clipboard_with_instruction, the
\* clipboard text as prompt, the buffer as context.instruction, and
\* pendingBackspaceCount is the buffer's raw_count; if the buffer is empty the
\* mode is clipboard and pendingBackspaceCount is 0.  With an empty clipboard
\* the hotkey starts no session and sends no request.
C30_ClipboardRequest ==
  [][/\ \A s \in Sessions :
          (sess'[s].kind = "clipboard" /\ sess[s].pc # "waiting" /\ sess'[s].pc = "waiting")
            => LET d == sess'[s].bufferData
                   c == sess'[s].command
               IN IF d.buffer # <<>>
                    THEN /\ c.mode = "clipboard_with_instruction"
                         /\ c.prompt = sess'[s].clipboardText
                         /\ c.instruction = d.buffer
                         /\ pendingBackspaceCount' = d.raw_count
                    ELSE /\ c.mode = "clipboard"
                         /\ pendingBackspaceCount' = 0
     /\ handleClipboardTrigger(<<>>) => UNCHANGED <<sess, pendingAIRequest>>]_vars

\* C39: in every reachable state a positive pendingBackspaceCount comes with a
\* triggerMode that is a monitor trigger type or clipboard; with triggerMode
\* null, prompt or screenshot the count is 0.
C39_BackspacesOnlyForTriggers ==
  pendingBackspaceCount > 0 => triggerMode \in MonitorTypes \cup {"clipboard"}

\* Backspaces are pending for a Clipboard-hotkey session that followed a
\* finished extension trigger, with the overlay on screen.
C39_Witness ==
  /\ pendingBackspaceCount > 0
  /\ triggerMode = "clipboard"
  /\ isWindowVisible
  /\ \E s \in Sessions : sess[s].kind = "extension" /\ sess[s].pc = "done"

C34_RequestSettlesByTimeout ==
  \A r \in Sessions : sess[r].st = "pending" => sess[r].timer

\* C35: a text generated from the overlay prompt bar and stored through
\* set-generated-text is pasted with zero backspaces: when the Paste hotkey
\* builds the injector command for it, pendingBackspaceCount is 0.
C35_OverlayTextPastedWithoutBackspaces ==
  [][\A p \in Pastes :
       (pasteShortcut_exec(p) /\ lastGeneratedText # <<>> /\ lastSetBy = 0)
         => pendingBackspaceCount = 0]_vars

\* C36: every requestBuffer call resolves once, with the monitor's buffer
\* event or with the empty buffer after its own 500 ms timeout: the timer of
\* a call never resolves another call, and a call whose own timer has fired
\* is no longer waiting.
C36_BufferCallsResolveOnce ==
  [][/\ \A s \in Sessions :
          (BufferTimeoutFire(s) /\ pendingBufferResolve # 0) => pendingBufferResolve = s
     /\ \A s \in Sessions : sess'[s].pc = "buffer" => sess'[s].bufTimer]_vars
\* C37: a child that the application stopped deliberately (will-quit called
\* stopKeystrokeMonitor / stopAIBackend while its handle was set) is not
\* restarted: its close handler schedules no restart.
C37_StoppedChildNotRestarted ==
  [][/\ \A code \in {0, 1} :
         (MonitorClose(code, MaxStreak) /\ "monitor" \in quit.stopping)
           => (monitorRestartTimer' = monitorRestartTimer
               /\ monitorRestartCount' = monitorRestartCount)
     /\ \A code \in {0, 1} :
         (AIClose(code, MaxStreak) /\ "ai" \in quit.stopping /\ ~aiRestartTimer)
           => ~aiRestartTimer']_vars

\* C38: no recorder process runs while isVoiceRecording is false, and at most
\* one recorder process runs at a time.
C38_RecorderKilledByStop ==
  /\ ~voice.isVoiceRecording => Recording = {}
  /\ Cardinality(Recording) <= 1

\* C31: while encryption is as available as it was at the last saveApiKey(p, k)
\* with non-empty p and k, getApiKey(p) and getAllApiKeys()[p] are k and the
\* entry is the encrypted base64 string (facility available) or {plaintext: k}
\* (not available); a saveApiKey leaves the entries of the other providers alone.
C31_KeyRoundTrip ==
  [][/\ \A p \in Providers :
         (/\ keystore'.saved[p] # <<>>
          /\ keystore'.saved[p][1].available = keystore'.encryptionAvailable)
           => LET k == keystore'.saved[p][1].key
                  all == getAllApiKeys(keystore'.keys, keystore'.encryptionAvailable)
              IN  /\ getApiKey(keystore'.keys, keystore'.encryptionAvailable, p) = <<k>>
                  /\ p \in DOMAIN all /\ all[p] = k
                  /\ keystore'.keys[p] = IF keystore'.encryptionAvailable
                                           THEN EncryptedEntry(k) ELSE PlaintextEntry(k)
     /\ \A provider \in Providers, key \in KeyArgs \ {""} :
         saveApiKey(provider, key)
           => \A q \in Providers \ {provider} : keystore'.keys[q] = keystore.keys[q]]_vars

\* C31 witness: a provider saved while encryption was available reads back, next
\* to another provider's entry that was saved as plaintext.
C31_Witness ==
  \E p \in Providers, q \in Providers :
    /\ p # q
    /\ keystore.encryptionAvailable
    /\ keystore.saved[p] # <<>> /\ keystore.saved[p][1].available
    /\ keystore.keys[p] = EncryptedEntry(keystore.saved[p][1].key)
    /\ keystore.keys[q].type = "object"

\* C40: getConfiguredProviders() lists exactly the providers for which getApiKey
\* returns a key.
C40_ConfiguredProvidersHaveKeys ==
  getConfiguredProviders(keystore.keys)
    = {p \in Providers :
         getApiKey(keystore.keys, keystore.encryptionAvailable, p) # <<>>}

\* C32: after loadCachedConfig the environment handed to the AI worker holds no
\* value of MISTRAL_API_KEY, REPLICATE_API_TOKEN or GOOGLE_API_KEY that is empty
\* or includes the placeholder 'your-'.
C32_NoPlaceholderInWorkerEnv ==
  config.cachedEnv # <<>> =>
    \A name \in ApiKeyNames :
      LET v == config.cachedEnv[1][name]
      IN  v # <<>> => (v[1] # <<>> /\ \A i \in 1..Len(v[1]) : v[1][i] # "your-")

====
